---- MODULE Spec2Model ----
(***************************************************************************)
(* Model of the hybrid virtual file store of the terminal site:            *)
(*   - the path algebra (filesystem/types.rs),                             *)
(*   - the Eager Store VIRTUAL_FS (filesystem/virtual_fs.rs),              *)
(*   - the Caching Overlay ABYSS_FS with its sync-attempt / fetch / retry  *)
(*     mutation protocol (filesystem/abyss.rs, filesystem/helpers.rs),     *)
(*   - the one-shot merge of the procedural subtree                        *)
(*     (filesystem/cave_of_dice.rs),                                       *)
(*   - the mkdir command's overlay branch (commands/builtin/filesystem.rs).*)
(* An async helper is a task: it runs atomically up to the fetch it        *)
(* awaits, and resumes atomically when the fetch completes.                *)
(***************************************************************************)
EXTENDS Integers, Sequences, FiniteSets, TLC

VARIABLES
    ABYSS_FS,                   \* filesystem/mod.rs:18   [files, dirs]
    CAVE_OF_DICE_INITIALISED,   \* filesystem/mod.rs:19
    VIRTUAL_FS,                 \* filesystem/mod.rs:17   [content]
    CAVE_OF_DICE,               \* cave_of_dice.rs:28, the built subtree
    remote,                     \* the side files the server holds
    tasks,                      \* the async helpers in flight
    ops,                        \* number of operations started so far
    merges,                     \* history: executions of the merge body
    lookups,                    \* history: trigger checks that saw the mount name
    cached_fetches,             \* history: listing fetches issued for a cached entry
    added,                      \* history: names added by local mutations
    removed,                    \* history: names removed by local mutations
    booted,                     \* load_manifest has run
    vfs_last,                   \* the last Eager Store call and its result
    path_call,                  \* the last call of the path algebra and its result
    build,                      \* cave_of_dice.rs:47, the node the build loop is at
    INPUT_HISTORY,              \* input_history.rs:55
    history_call                \* the last call on INPUT_HISTORY and its result

vars == << ABYSS_FS, CAVE_OF_DICE_INITIALISED, VIRTUAL_FS, CAVE_OF_DICE, remote,
           tasks, ops, merges, lookups, cached_fetches, added, removed, booted, vfs_last,
           path_call, build, INPUT_HISTORY, history_call >>

\* what the file store leaves alone
auxVars == << path_call, build, INPUT_HISTORY, history_call >>

overlayVars == << ABYSS_FS, CAVE_OF_DICE_INITIALISED, CAVE_OF_DICE, remote,
                  tasks, merges, lookups, cached_fetches, added, removed >>

eagerVars == << VIRTUAL_FS, booted, vfs_last >>

----------------------------------------------------------------------------
\* Bounds of the model

\* operations started in one behaviour
MaxOps == 4

\* the saturation point of the history counter lookups
MaxLookups == 2

----------------------------------------------------------------------------
\* Finite maps (HashMap) as functions with a finite domain

EmptyMap == [x \in {} |-> TRUE]

MapInsert(m, k, v) == [x \in (DOMAIN m) \cup {k} |-> IF x = k THEN v ELSE m[x]]

MapRemove(m, k) == [x \in (DOMAIN m) \ {k} |-> m[x]]

\* m.extend(other): the entries of other win
MapExtend(m, other) ==
    [x \in (DOMAIN m) \cup (DOMAIN other) |-> IF x \in DOMAIN other THEN other[x] ELSE m[x]]

\* Option<T>
None == << >>

Some(x) == << x >>

----------------------------------------------------------------------------
\* filesystem/types.rs

InMemory(text) == [tag |-> "InMemory", text |-> text]

ToFetch == [tag |-> "ToFetch", text |-> ""]

In(name) == [tag |-> "In", name |-> name]

Out == [tag |-> "Out", name |-> ""]

root == << >>

FilePath(dir, file) == [dir |-> dir, file |-> file]

cd_no_marker_at_root(path, next, at_root) ==
    IF next.tag = "In" THEN Append(path, next)
    ELSE IF path = << >> THEN << >>
    ELSE IF ~at_root /\ path[Len(path)].tag = "Out" THEN Append(path, Out)
    ELSE SubSeq(path, 1, Len(path) - 1)

cd_ascends_cancel(path, next, at_root) ==
    IF next.tag = "In" THEN Append(path, next)
    ELSE IF path = << >> THEN IF at_root THEN << >> ELSE << Out >>
    ELSE SubSeq(path, 1, Len(path) - 1)

cd(path, next, at_root) ==
    IF next.tag = "In" THEN Append(path, next)
    ELSE IF ~at_root
         THEN IF path = << >> THEN << Out >>
              ELSE IF path[Len(path)].tag = "Out" THEN Append(path, Out)
              ELSE SubSeq(path, 1, Len(path) - 1)
         ELSE IF path = << >> THEN << >>
              ELSE SubSeq(path, 1, Len(path) - 1)

RECURSIVE concat_unclamped(_, _, _)
concat_unclamped(base, relative, at_root) ==
    IF relative = << >> THEN base
    ELSE concat_unclamped(cd(base, Head(relative), FALSE), Tail(relative), at_root)

RECURSIVE concat(_, _, _)
concat(base, relative, at_root) ==
    IF relative = << >> THEN base
    ELSE concat(cd(base, Head(relative), at_root), Tail(relative), at_root)

normalised_from_self(path, at_root) == concat(path, path, at_root)

normalised(path, at_root) == concat(root, path, at_root)

\* parent path; nothing on the root or on a path that ends with an ascend marker
super_dir(path) ==
    IF path = << >> THEN None
    ELSE IF path[Len(path)].tag = "Out" THEN None
    ELSE Some(SubSeq(path, 1, Len(path) - 1))

\* last descend name; nothing on the root or on a path that ends with an ascend marker
final_component(path) ==
    IF path = << >> THEN None
    ELSE IF path[Len(path)].tag = "Out" THEN None
    ELSE Some(path[Len(path)].name)

\* A path text is the sequence of its characters; the name of a move made
\* from a text is the sequence of the characters of its segment.

\* DirPath::to_string
RECURSIVE DirPath_to_string_moves(_)
DirPath_to_string_moves(path) ==
    IF path = << >> THEN << >>
    ELSE IF Head(path).tag = "In"
         THEN << "/" >> \o Head(path).name \o DirPath_to_string_moves(Tail(path))
         ELSE << "/", ".", "." >> \o DirPath_to_string_moves(Tail(path))

DirPath_to_string(path) ==
    IF path = << >> THEN << "/" >> ELSE DirPath_to_string_moves(path)

\* the length of the first segment of a text that does not start with '/'
segment_len(text) ==
    IF \E i \in DOMAIN text : text[i] = "/"
    THEN (CHOOSE i \in DOMAIN text : text[i] = "/" /\ \A j \in 1..(i - 1) : text[j] # "/") - 1
    ELSE Len(text)

\* text.split('/').filter(|s| !s.is_empty())
RECURSIVE split_non_empty(_)
split_non_empty(text) ==
    IF text = << >> THEN << >>
    ELSE IF Head(text) = "/" THEN split_non_empty(Tail(text))
    ELSE << SubSeq(text, 1, segment_len(text)) >>
            \o split_non_empty(SubSeq(text, segment_len(text) + 1, Len(text)))

\* the loop over the components: "." stays, ".." ascends clamped, a name descends
RECURSIVE parse_components_unclamped(_, _)
parse_components_unclamped(dir, components) ==
    IF components = << >> THEN dir
    ELSE LET component == Head(components)
             moved == IF component = << "." >> THEN dir
                      ELSE IF component = << ".", "." >> THEN cd(dir, Out, FALSE)
                      ELSE cd(dir, In(component), FALSE)
         IN parse_components_unclamped(moved, Tail(components))

RECURSIVE parse_components(_, _)
parse_components(dir, components) ==
    IF components = << >> THEN dir
    ELSE LET component == Head(components)
             moved == IF component = << "." >> THEN dir
                      ELSE IF component = << ".", "." >> THEN cd(dir, Out, TRUE)
                      ELSE cd(dir, In(component), TRUE)
         IN parse_components(moved, Tail(components))

starts_with_slash(path) == path # << >> /\ path[1] = "/"

parse_start(path, current_dir) ==
    IF starts_with_slash(path) THEN root ELSE current_dir

DirPath_parse(path, current_dir) ==
    IF path = << "/" >> THEN root
    ELSE parse_components(parse_start(path, current_dir), split_non_empty(path))

FilePath_parse_from_current(path, current_dir) ==
    LET slashes == { i \in DOMAIN path : path[i] = "/" }
    IN IF slashes = {} THEN FilePath(current_dir, path)
       ELSE LET k == CHOOSE i \in slashes : \A j \in slashes : j <= i
            IN FilePath(parse_components(current_dir, split_non_empty(SubSeq(path, 1, k - 1))),
                        SubSeq(path, k + 1, Len(path)))

\* path.rsplitn(2, '/'): the text after the last '/', and the text before it
FilePath_parse(path, current_dir) ==
    LET slashes == { i \in DOMAIN path : path[i] = "/" }
    IN IF slashes = {} THEN FilePath(current_dir, path)
       ELSE LET k == CHOOSE i \in slashes : \A j \in slashes : j <= i
                filename == SubSeq(path, k + 1, Len(path))
                dir_part == SubSeq(path, 1, k - 1)
            IN FilePath(parse_components(parse_start(path, current_dir),
                                         split_non_empty(dir_part)),
                        filename)

----------------------------------------------------------------------------
\* filesystem/abyss.rs

Ok == "Ok"

NeedsFetch == "NeedsFetch"

\* Contents::from_file: one name per non-blank line, each pending
Contents_from_file(text) ==
    [name \in {text[i] : i \in DOMAIN text} \ {""} |-> ToFetch]

\* Directories::from_file: one name per non-blank line
Directories_from_file(text) == {text[i] : i \in DOMAIN text} \ {""}

AbyssFileSystem_new == [files |-> EmptyMap, dirs |-> EmptyMap]

sync_remove_file(afs, filepath) ==
    IF filepath.dir \in DOMAIN afs.files
    THEN [afs |-> [afs EXCEPT !.files[filepath.dir] = MapRemove(@, filepath.file)],
          res |-> Ok]
    ELSE [afs |-> afs, res |-> NeedsFetch]

sync_remove_file_with_data(afs, filepath, contents) ==
    IF filepath.file \in DOMAIN contents
    THEN [afs |-> [afs EXCEPT !.files = MapInsert(@, filepath.dir, MapRemove(contents, filepath.file))],
          res |-> Ok]
    ELSE [afs |-> afs, res |-> "No such file"]

sync_remove_dir_purging(afs, dirpath) ==
    IF dirpath \notin DOMAIN afs.files THEN [afs |-> afs, res |-> NeedsFetch]
    ELSE IF dirpath \notin DOMAIN afs.dirs THEN [afs |-> afs, res |-> NeedsFetch]
    ELSE IF DOMAIN afs.files[dirpath] # {} \/ afs.dirs[dirpath] # {}
         THEN [afs |-> [files |-> MapRemove(afs.files, dirpath),
                        dirs |-> MapRemove(afs.dirs, dirpath)],
               res |-> NeedsFetch]
    ELSE IF super_dir(dirpath) = None THEN [afs |-> afs, res |-> NeedsFetch]
    ELSE IF super_dir(dirpath)[1] \notin DOMAIN afs.dirs THEN [afs |-> afs, res |-> NeedsFetch]
    ELSE IF final_component(dirpath) = None THEN [afs |-> afs, res |-> NeedsFetch]
    ELSE LET parent == super_dir(dirpath)[1]
             dirname == final_component(dirpath)[1]
             parent_removed == [afs.dirs EXCEPT ![parent] = @ \ {dirname}]
         IN [afs |-> [files |-> MapRemove(afs.files, dirpath),
                      dirs |-> MapRemove(parent_removed, dirpath)],
             res |-> Ok]

sync_remove_dir(afs, dirpath) ==
    IF dirpath \notin DOMAIN afs.files THEN [afs |-> afs, res |-> NeedsFetch]
    ELSE IF dirpath \notin DOMAIN afs.dirs THEN [afs |-> afs, res |-> NeedsFetch]
    ELSE IF DOMAIN afs.files[dirpath] # {} \/ afs.dirs[dirpath] # {}
         THEN [afs |-> afs, res |-> NeedsFetch]
    ELSE IF super_dir(dirpath) = None THEN [afs |-> afs, res |-> NeedsFetch]
    ELSE IF super_dir(dirpath)[1] \notin DOMAIN afs.dirs THEN [afs |-> afs, res |-> NeedsFetch]
    ELSE IF final_component(dirpath) = None THEN [afs |-> afs, res |-> NeedsFetch]
    ELSE LET parent == super_dir(dirpath)[1]
             dirname == final_component(dirpath)[1]
             parent_removed == [afs.dirs EXCEPT ![parent] = @ \ {dirname}]
         IN [afs |-> [files |-> MapRemove(afs.files, dirpath),
                      dirs |-> MapRemove(parent_removed, dirpath)],
             res |-> Ok]

sync_remove_dir_with_data_unchecked(afs, dirpath, contents, directories, parent_dirs) ==
    IF super_dir(dirpath) = None \/ final_component(dirpath) = None
    THEN [afs |-> afs, res |-> "Invalid path"]
    ELSE LET parent == super_dir(dirpath)[1]
             dirname == final_component(dirpath)[1]
             inserted == MapInsert(afs.dirs, parent, parent_dirs \ {dirname})
         IN [afs |-> [files |-> MapRemove(afs.files, dirpath),
                      dirs |-> MapRemove(inserted, dirpath)],
             res |-> Ok]

sync_remove_dir_with_data(afs, dirpath, contents, directories, parent_dirs) ==
    IF DOMAIN contents # {} \/ directories # {}
    THEN [afs |-> afs, res |-> "Directory not empty"]
    ELSE IF super_dir(dirpath) = None \/ final_component(dirpath) = None
         THEN [afs |-> afs, res |-> "Invalid path"]
    ELSE LET parent == super_dir(dirpath)[1]
             dirname == final_component(dirpath)[1]
             inserted == MapInsert(afs.dirs, parent, parent_dirs \ {dirname})
         IN [afs |-> [files |-> MapRemove(afs.files, dirpath),
                      dirs |-> MapRemove(inserted, dirpath)],
             res |-> Ok]

sync_create_dir(afs, dirpath) ==
    IF super_dir(dirpath) = None THEN [afs |-> afs, res |-> NeedsFetch]
    ELSE IF final_component(dirpath) = None THEN [afs |-> afs, res |-> NeedsFetch]
    ELSE IF super_dir(dirpath)[1] \notin DOMAIN afs.dirs THEN [afs |-> afs, res |-> NeedsFetch]
    ELSE LET parent == super_dir(dirpath)[1]
             dir_name == final_component(dirpath)[1]
             parent_added == [afs.dirs EXCEPT ![parent] = @ \cup {dir_name}]
         IN [afs |-> [files |-> MapInsert(afs.files, dirpath, EmptyMap),
                      dirs |-> MapInsert(parent_added, dirpath, {})],
             res |-> Ok]

sync_create_dir_with_data_partial(afs, dirpath, parent_dirs) ==
    IF super_dir(dirpath) = None \/ final_component(dirpath) = None
    THEN [afs |-> afs, res |-> "Invalid path"]
    ELSE LET parent == super_dir(dirpath)[1]
             dir_name == final_component(dirpath)[1]
             inserted == MapInsert(afs.dirs, parent, {dir_name})
         IN [afs |-> [files |-> MapInsert(afs.files, dirpath, EmptyMap),
                      dirs |-> MapInsert(inserted, dirpath, {})],
             res |-> Ok]

sync_create_dir_with_data(afs, dirpath, parent_dirs) ==
    IF super_dir(dirpath) = None \/ final_component(dirpath) = None
    THEN [afs |-> afs, res |-> "Invalid path"]
    ELSE LET parent == super_dir(dirpath)[1]
             dir_name == final_component(dirpath)[1]
             inserted == MapInsert(afs.dirs, parent, parent_dirs \cup {dir_name})
         IN [afs |-> [files |-> MapInsert(afs.files, dirpath, EmptyMap),
                      dirs |-> MapInsert(inserted, dirpath, {})],
             res |-> Ok]

sync_write_file(afs, filepath, content) ==
    IF filepath.dir \in DOMAIN afs.files
    THEN [afs |-> [afs EXCEPT !.files[filepath.dir] = MapInsert(@, filepath.file, InMemory(content))],
          res |-> Ok]
    ELSE [afs |-> afs, res |-> NeedsFetch]

sync_write_file_with_data_marks_dir(afs, filepath, contents, content) ==
    [afs |-> [files |-> MapInsert(afs.files, filepath.dir,
                                  MapInsert(contents, filepath.file, InMemory(content))),
              dirs |-> MapInsert(afs.dirs, filepath.dir, {})],
     res |-> Ok]

sync_write_file_with_data_merging(afs, filepath, contents, content) ==
    LET cached == IF filepath.dir \in DOMAIN afs.files THEN afs.files[filepath.dir] ELSE EmptyMap
    IN [afs |-> [afs EXCEPT !.files = MapInsert(@, filepath.dir,
                     MapInsert(MapExtend(contents, cached), filepath.file, InMemory(content)))],
        res |-> Ok]

sync_write_file_with_data(afs, filepath, contents, content) ==
    [afs |-> [afs EXCEPT !.files = MapInsert(@, filepath.dir,
                                             MapInsert(contents, filepath.file, InMemory(content)))],
     res |-> Ok]

----------------------------------------------------------------------------
\* filesystem/virtual_fs.rs  (a store is the map VirtualFilesystem.content)

VirtualFilesystem_new == EmptyMap

vfs_write_file_fresh_dir(vfs, filepath, content) ==
    MapInsert(vfs, filepath.dir, MapInsert(EmptyMap, filepath.file, InMemory(content)))

vfs_write_file(vfs, filepath, content) ==
    LET files == IF filepath.dir \in DOMAIN vfs THEN vfs[filepath.dir] ELSE EmptyMap
    IN MapInsert(vfs, filepath.dir, MapInsert(files, filepath.file, InMemory(content)))

vfs_get_content(vfs, filepath) ==
    IF filepath.dir \notin DOMAIN vfs THEN None
    ELSE IF filepath.file \notin DOMAIN vfs[filepath.dir] THEN None
    ELSE Some(vfs[filepath.dir][filepath.file])

vfs_remove_file_drops_empty_dir(vfs, filepath) ==
    IF filepath.dir \in DOMAIN vfs
    THEN [vfs |-> IF DOMAIN vfs[filepath.dir] \subseteq {filepath.file}
                  THEN MapRemove(vfs, filepath.dir)
                  ELSE [vfs EXCEPT ![filepath.dir] = MapRemove(@, filepath.file)],
          res |-> filepath.file \in DOMAIN vfs[filepath.dir]]
    ELSE [vfs |-> vfs, res |-> FALSE]

vfs_remove_file(vfs, filepath) ==
    IF filepath.dir \in DOMAIN vfs
    THEN [vfs |-> [vfs EXCEPT ![filepath.dir] = MapRemove(@, filepath.file)],
          res |-> filepath.file \in DOMAIN vfs[filepath.dir]]
    ELSE [vfs |-> vfs, res |-> FALSE]

vfs_create_dir(vfs, dirpath) ==
    IF dirpath \in DOMAIN vfs THEN vfs ELSE MapInsert(vfs, dirpath, EmptyMap)

vfs_dir_exists(vfs, dirpath) == dirpath \in DOMAIN vfs

\* the loop of remove_dir over the stored keys: a longer key whose first
\* Len(dirpath) components are those of dirpath
vfs_has_subdir(vfs, dirpath) ==
    \E dir \in DOMAIN vfs :
        /\ Len(dir) > Len(dirpath)
        /\ \A i \in 1..Len(dirpath) : dir[i] = dirpath[i]

vfs_remove_dir_keeps_entry(vfs, dirpath) ==
    IF dirpath \in DOMAIN vfs
    THEN IF DOMAIN vfs[dirpath] # {}
         THEN [vfs |-> vfs, res |-> "Directory not empty"]
         ELSE IF vfs_has_subdir(vfs, dirpath)
              THEN [vfs |-> vfs, res |-> "Directory not empty"]
              ELSE [vfs |-> vfs, res |-> Ok]
    ELSE [vfs |-> vfs, res |-> "Directory does not exist"]

vfs_remove_dir_no_subdir_check(vfs, dirpath) ==
    IF dirpath \in DOMAIN vfs
    THEN IF DOMAIN vfs[dirpath] # {}
         THEN [vfs |-> vfs, res |-> "Directory not empty"]
         ELSE [vfs |-> MapRemove(vfs, dirpath), res |-> Ok]
    ELSE [vfs |-> vfs, res |-> "Directory does not exist"]

vfs_remove_dir(vfs, dirpath) ==
    IF dirpath \in DOMAIN vfs
    THEN IF DOMAIN vfs[dirpath] # {}
         THEN [vfs |-> vfs, res |-> "Directory not empty"]
         ELSE IF vfs_has_subdir(vfs, dirpath)
              THEN [vfs |-> vfs, res |-> "Directory not empty"]
              ELSE [vfs |-> MapRemove(vfs, dirpath), res |-> Ok]
    ELSE [vfs |-> vfs, res |-> "Directory does not exist"]

vfs_list_files_in_dir(vfs, dirpath) ==
    IF dirpath \in DOMAIN vfs THEN DOMAIN vfs[dirpath] ELSE {}

vfs_list_subdirs_in_dir(vfs, dirpath) ==
    { dir[Len(dirpath) + 1].name :
        dir \in { d \in DOMAIN vfs :
                    /\ Len(d) = Len(dirpath) + 1
                    /\ \A i \in 1..Len(dirpath) : d[i] = dirpath[i]
                    /\ d[Len(dirpath) + 1].tag = "In" } }

\* the path of a manifest entry: its non-empty components, each entered from the root
RECURSIVE manifest_dir(_)
manifest_dir(components) ==
    IF components = << >> THEN root
    ELSE IF components[Len(components)] = ""
         THEN manifest_dir(SubSeq(components, 1, Len(components) - 1))
         ELSE cd(manifest_dir(SubSeq(components, 1, Len(components) - 1)),
                 In(components[Len(components)]), TRUE)

RECURSIVE manifest_add_dirs(_, _)
manifest_add_dirs(vfs, directories) ==
    IF directories = << >> THEN vfs
    ELSE manifest_add_dirs(MapInsert(vfs, manifest_dir(Head(directories)), EmptyMap),
                           Tail(directories))

RECURSIVE manifest_add_files(_, _)
manifest_add_files(vfs, files) ==
    IF files = << >> THEN vfs
    ELSE LET dir == manifest_dir(Head(files).path)
             old == IF dir \in DOMAIN vfs THEN vfs[dir] ELSE EmptyMap
         IN manifest_add_files(MapInsert(vfs, dir, MapInsert(old, Head(files).name, ToFetch)),
                               Tail(files))

initialize_from_manifest_files_first(vfs, manifest) ==
    manifest_add_dirs(
        manifest_add_files(MapInsert(vfs, root, EmptyMap), manifest.files),
        manifest.directories)

initialize_from_manifest(vfs, manifest) ==
    manifest_add_files(
        manifest_add_dirs(MapInsert(vfs, root, EmptyMap), manifest.directories),
        manifest.files)

----------------------------------------------------------------------------
\* filesystem/cave_of_dice.rs

DICE_SIZES == {4, 6, 8, 10, 12, 20}

dice_dir(n) ==
    CASE n = 4 -> "d4" [] n = 6 -> "d6" [] n = 8 -> "d8"
      [] n = 10 -> "d10" [] n = 12 -> "d12" [] OTHER -> "d20"

dice_file(n) ==
    CASE n = 4 -> "d4.txt" [] n = 6 -> "d6.txt" [] n = 8 -> "d8.txt"
      [] n = 10 -> "d10.txt" [] n = 12 -> "d12.txt" [] OTHER -> "d20.txt"

route_name(i) == IF i = 1 THEN "route_1" ELSE IF i = 2 THEN "route_2" ELSE "route_3"

path_from_name(name) == << In(name) >>

\* A subtree the build can produce: the six size-class directories under the
\* root, each with its generated file, and the second-level routes `kids`
\* (records [parent, i, n]: route_i under d{parent}, of size class n, childless).
CaveOfDice(kids) ==
    LET top(n) == path_from_name(dice_dir(n))
        kid(k) == concat(top(k.parent), path_from_name(route_name(k.i)), FALSE)
        tops == { top(n) : n \in DICE_SIZES }
        kidpaths == { kid(k) : k \in kids }
        class(p) == IF p \in tops
                    THEN CHOOSE n \in DICE_SIZES : top(n) = p
                    ELSE (CHOOSE k \in kids : kid(k) = p).n
    IN [dirs |-> [p \in {root} \cup tops \cup kidpaths |->
                    IF p = root THEN { dice_dir(n) : n \in DICE_SIZES }
                    ELSE IF p \in tops
                         THEN { route_name(k.i) : k \in { j \in kids : top(j.parent) = p } }
                         ELSE {}],
        files |-> [p \in {root} \cup tops \cup kidpaths |->
                    IF p = root THEN MapInsert(EmptyMap, "README.md", InMemory("readme"))
                    ELSE MapInsert(EmptyMap, dice_file(class(p)), ToFetch)]]

\* the subtrees the model starts from
CaveChoices == { CaveOfDice({}), CaveOfDice({[parent |-> 4, i |-> 1, n |-> 6]}) }

\* The process state the helpers thread through one atomic step:
\*   afs = ABYSS_FS, init = CAVE_OF_DICE_INITIALISED, vfs = VIRTUAL_FS,
\*   and the histories merges, lookups and cached_fetches (log).
World == [afs |-> ABYSS_FS, init |-> CAVE_OF_DICE_INITIALISED, vfs |-> VIRTUAL_FS,
          merges |-> merges, lookups |-> lookups, log |-> cached_fetches]

\* the entries of one map of cod_fs, re-keyed under cod_path
rebased(cod_path, m) ==
    [q \in { concat(cod_path, p, FALSE) : p \in DOMAIN m } |->
        m[CHOOSE p \in DOMAIN m : concat(cod_path, p, FALSE) = q]]

initialise_with_file_structure_unguarded(w, cod_path, cod_fs) ==
    [w EXCEPT !.afs = [dirs |-> MapExtend(w.afs.dirs, rebased(cod_path, cod_fs.dirs)),
                       files |-> MapExtend(w.afs.files, rebased(cod_path, cod_fs.files))],
              !.init = TRUE,
              !.merges = @ + 1]

initialise_with_file_structure(w, cod_path, cod_fs) ==
    IF ~w.init
    THEN [w EXCEPT !.afs = [dirs |-> MapExtend(w.afs.dirs, rebased(cod_path, cod_fs.dirs)),
                            files |-> MapExtend(w.afs.files, rebased(cod_path, cod_fs.files))],
                   !.init = TRUE,
                   !.merges = @ + 1]
    ELSE w

path_in_abyss(path) ==
    IF path = << >> THEN FALSE ELSE path[1] = In("abyss")

\* returns [w, val]: the process state after the trigger, and the boolean result
path_in_cave_of_dice(w, path) ==
    LET hits == { i \in DOMAIN path : path[i] = In("cave_of_dice") }
    IN IF hits # {}
       THEN LET x == CHOOSE i \in hits : \A j \in hits : i <= j
                seen == [w EXCEPT !.lookups = IF @ < MaxLookups THEN @ + 1 ELSE @]
            IN [w |-> initialise_with_file_structure(seen, SubSeq(path, 1, x), CAVE_OF_DICE),
                val |-> path_in_abyss(path)]
       ELSE [w |-> w, val |-> FALSE]

----------------------------------------------------------------------------
\* filesystem/helpers.rs
\*
\* A helper that awaits a fetch is written as its synchronous part, which
\* returns [w, ready, val]: ready = FALSE means the fetch was issued and the
\* caller is suspended until it completes.  A task operator returns [w, tk].

IdleTask ==
    [op |-> "none", pc |-> "idle", dir |-> root, file |-> "", text |-> "",
     contents |-> EmptyMap, directories |-> {}, res |-> "",
     await |-> [kind |-> "none", path |-> root],
     needed |-> FALSE, retries |-> 0, nfetch |-> 0, late |-> FALSE, roll |-> 0,
     start |-> AbyssFileSystem_new, start_init |-> FALSE]

Done(w, tk, res) == [w |-> w, tk |-> [tk EXCEPT !.pc = "done", !.res = res]]

\* the task stops at the await of the fetch of (kind, path); late records a
\* fetch issued after the retry
Suspend(w, tk, pc, kind, path) ==
    [w |-> w,
     tk |-> [tk EXCEPT !.pc = pc, !.await = [kind |-> kind, path |-> path],
                       !.nfetch = @ + 1, !.late = @ \/ tk.retries > 0]]

is_cached(afs, kind, path) ==
    IF kind = "contents" THEN path \in DOMAIN afs.files ELSE path \in DOMAIN afs.dirs

\* fetch_text(content{path}/!!contents.txt | !!directories.txt) is issued
\* the history keeps the fetches issued although the entry was cached
fetch_issued(w, kind, path) ==
    IF is_cached(w.afs, kind, path)
    THEN [w EXCEPT !.log = @ \cup {[kind |-> kind, path |-> path]}]
    ELSE w

get_directories_always_fetch(w, path) ==
    IF path_in_abyss(path)
    THEN LET w1 == path_in_cave_of_dice(w, path).w
         IN [w |-> fetch_issued(w1, "directories", path), ready |-> FALSE, val |-> {}]
    ELSE [w |-> w, ready |-> TRUE, val |-> vfs_list_subdirs_in_dir(w.vfs, path)]

get_directories(w, path) ==
    IF path_in_abyss(path)
    THEN LET w1 == path_in_cave_of_dice(w, path).w
         IN IF path \in DOMAIN w1.afs.dirs
            THEN [w |-> w1, ready |-> TRUE, val |-> w1.afs.dirs[path]]
            ELSE [w |-> fetch_issued(w1, "directories", path), ready |-> FALSE, val |-> {}]
    ELSE [w |-> w, ready |-> TRUE, val |-> vfs_list_subdirs_in_dir(w.vfs, path)]

get_contents_always_fetch(w, path) ==
    IF path_in_abyss(path)
    THEN LET w1 == path_in_cave_of_dice(w, path).w
         IN [w |-> fetch_issued(w1, "contents", path), ready |-> FALSE, val |-> EmptyMap]
    ELSE [w |-> w, ready |-> TRUE,
          val |-> [file \in vfs_list_files_in_dir(w.vfs, path) |->
                      vfs_get_content(w.vfs, FilePath(path, file))[1]]]

get_contents(w, path) ==
    IF path_in_abyss(path)
    THEN LET w1 == path_in_cave_of_dice(w, path).w
         IN IF path \in DOMAIN w1.afs.files
            THEN [w |-> w1, ready |-> TRUE, val |-> w1.afs.files[path]]
            ELSE [w |-> fetch_issued(w1, "contents", path), ready |-> FALSE, val |-> EmptyMap]
    ELSE [w |-> w, ready |-> TRUE,
          val |-> [file \in vfs_list_files_in_dir(w.vfs, path) |->
                      vfs_get_content(w.vfs, FilePath(path, file))[1]]]

\* dir_exists up to its await; val is meaningful when ready
dir_exists(w, path) ==
    IF path = << >> THEN [w |-> w, ready |-> TRUE, val |-> TRUE]
    ELSE IF super_dir(path) = None \/ final_component(path) = None
         THEN [w |-> w, ready |-> TRUE, val |-> FALSE]
    ELSE LET g == get_directories(w, super_dir(path)[1])
         IN [w |-> g.w, ready |-> g.ready,
             val |-> g.ready /\ final_component(path)[1] \in g.val]

\* ---- write_file_abyss

write_file_abyss_retry(w, tk, contents) ==
    LET r == sync_write_file_with_data(w.afs, FilePath(tk.dir, tk.file), contents, tk.text)
    IN Done([w EXCEPT !.afs = r.afs], [tk EXCEPT !.retries = @ + 1], Ok)

write_file_abyss(w, tk) ==
    LET w1 == path_in_cave_of_dice(w, tk.dir).w
        r == sync_write_file(w1.afs, FilePath(tk.dir, tk.file), tk.text)
        w2 == [w1 EXCEPT !.afs = r.afs]
    IN IF r.res = Ok THEN Done(w2, tk, Ok)
       ELSE LET g == get_contents(w2, tk.dir)
                tn == [tk EXCEPT !.needed = TRUE]
            IN IF g.ready THEN write_file_abyss_retry(g.w, tn, g.val)
               ELSE Suspend(g.w, tn, "write_file_abyss:contents", "contents", tk.dir)

\* ---- remove_file_abyss

remove_file_abyss_retry_needs_fetch(w, tk, contents) ==
    LET r == sync_remove_file_with_data(w.afs, FilePath(tk.dir, tk.file), contents)
    IN Done([w EXCEPT !.afs = r.afs], [tk EXCEPT !.retries = @ + 1],
            IF r.res = Ok THEN Ok ELSE NeedsFetch)

remove_file_abyss_retry(w, tk, contents) ==
    LET r == sync_remove_file_with_data(w.afs, FilePath(tk.dir, tk.file), contents)
    IN Done([w EXCEPT !.afs = r.afs], [tk EXCEPT !.retries = @ + 1], r.res)

remove_file_abyss(w, tk) ==
    LET w1 == path_in_cave_of_dice(w, tk.dir).w
        r == sync_remove_file(w1.afs, FilePath(tk.dir, tk.file))
        w2 == [w1 EXCEPT !.afs = r.afs]
    IN IF r.res = Ok THEN Done(w2, tk, Ok)
       ELSE LET g == get_contents(w2, tk.dir)
                tn == [tk EXCEPT !.needed = TRUE]
            IN IF g.ready THEN remove_file_abyss_retry(g.w, tn, g.val)
               ELSE Suspend(g.w, tn, "remove_file_abyss:contents", "contents", tk.dir)

\* ---- remove_dir_abyss

remove_dir_abyss_retry(w, tk, parent_dirs) ==
    LET r == sync_remove_dir_with_data(w.afs, tk.dir, tk.contents, tk.directories, parent_dirs)
    IN Done([w EXCEPT !.afs = r.afs], [tk EXCEPT !.retries = @ + 1], r.res)

\* from `let parent = dirpath.super_dir()` on; tk.contents and tk.directories are set
remove_dir_abyss_parent(w, tk) ==
    IF super_dir(tk.dir) = None THEN Done(w, tk, "Invalid path")
    ELSE LET g == get_directories(w, super_dir(tk.dir)[1])
         IN IF g.ready THEN remove_dir_abyss_retry(g.w, tk, g.val)
            ELSE Suspend(g.w, tk, "remove_dir_abyss:parent_dirs", "directories",
                         super_dir(tk.dir)[1])

\* from `let directories = get_directories(dirpath)` on; tk.contents is set
remove_dir_abyss_directories(w, tk) ==
    LET g == get_directories(w, tk.dir)
    IN IF g.ready THEN remove_dir_abyss_parent(g.w, [tk EXCEPT !.directories = g.val])
       ELSE Suspend(g.w, tk, "remove_dir_abyss:directories", "directories", tk.dir)

remove_dir_abyss(w, tk) ==
    LET w1 == path_in_cave_of_dice(w, tk.dir).w
        r == sync_remove_dir(w1.afs, tk.dir)
        w2 == [w1 EXCEPT !.afs = r.afs]
    IN IF r.res = Ok THEN Done(w2, tk, Ok)
       ELSE LET g == get_contents(w2, tk.dir)
                tn == [tk EXCEPT !.needed = TRUE]
            IN IF g.ready
               THEN remove_dir_abyss_directories(g.w, [tn EXCEPT !.contents = g.val])
               ELSE Suspend(g.w, tn, "remove_dir_abyss:contents", "contents", tk.dir)

\* ---- create_dir_abyss

create_dir_abyss_retry(w, tk, parent_dirs) ==
    LET r == sync_create_dir_with_data(w.afs, tk.dir, parent_dirs)
    IN Done([w EXCEPT !.afs = r.afs], [tk EXCEPT !.retries = @ + 1], r.res)

create_dir_abyss(w, tk) ==
    LET w1 == path_in_cave_of_dice(w, tk.dir).w
        r == sync_create_dir(w1.afs, tk.dir)
        w2 == [w1 EXCEPT !.afs = r.afs]
    IN IF r.res = Ok THEN Done(w2, tk, Ok)
       ELSE LET tn == [tk EXCEPT !.needed = TRUE]
            IN IF super_dir(tk.dir) = None THEN Done(w2, tn, "Invalid path")
               ELSE LET g == get_directories(w2, super_dir(tk.dir)[1])
                    IN IF g.ready THEN create_dir_abyss_retry(g.w, tn, g.val)
                       ELSE Suspend(g.w, tn, "create_dir_abyss:parent_dirs", "directories",
                                    super_dir(tk.dir)[1])


\* ---- the read helpers, as operations of their own

get_contents_op(w, tk) ==
    LET g == get_contents(w, tk.dir)
    IN IF g.ready THEN Done(g.w, [tk EXCEPT !.contents = g.val], Ok)
       ELSE Suspend(g.w, tk, "get_contents:fetch", "contents", tk.dir)

get_directories_op(w, tk) ==
    LET g == get_directories(w, tk.dir)
    IN IF g.ready THEN Done(g.w, [tk EXCEPT !.directories = g.val], Ok)
       ELSE Suspend(g.w, tk, "get_directories:fetch", "directories", tk.dir)

Bool(b) == IF b THEN "true" ELSE "false"

file_exists(w, tk) ==
    LET g == get_contents(w, tk.dir)
    IN IF g.ready THEN Done(g.w, tk, Bool(tk.file \in DOMAIN g.val))
       ELSE Suspend(g.w, tk, "file_exists:contents", "contents", tk.dir)

dir_exists_op(w, tk) ==
    LET e == dir_exists(w, tk.dir)
    IN IF e.ready THEN Done(e.w, tk, Bool(e.val))
       ELSE Suspend(e.w, tk, "dir_exists:directories", "directories", super_dir(tk.dir)[1])

\* from `let contents = get_contents(path)` on; tk.directories is set
list_directory_contents(w, tk) ==
    LET g == get_contents(w, tk.dir)
    IN IF g.ready THEN Done(g.w, [tk EXCEPT !.contents = g.val], Ok)
       ELSE Suspend(g.w, tk, "list_directory:contents", "contents", tk.dir)

list_directory(w, tk) ==
    LET g == get_directories(w, tk.dir)
    IN IF g.ready THEN list_directory_contents(g.w, [tk EXCEPT !.directories = g.val])
       ELSE Suspend(g.w, tk, "list_directory:directories", "directories", tk.dir)

is_dice_file_name(file_name) ==
    IF \E n \in DICE_SIZES : dice_file(n) = file_name
    THEN Some(CHOOSE n \in DICE_SIZES : dice_file(n) = file_name)
    ELSE None

\* the values random_range(1..=n) can give for this file
Rolls(file_name) ==
    IF is_dice_file_name(file_name) = None THEN {1} ELSE 1..is_dice_file_name(file_name)[1]

Contents_get(contents, filename) ==
    IF filename \in DOMAIN contents THEN Some(contents[filename]) ELSE None

read_content_at_storing(w, tk, content, roll) ==
    IF content = None THEN Done(w, tk, "No such file")
    ELSE IF content[1].tag = "InMemory" THEN Done(w, [tk EXCEPT !.text = content[1].text], Ok)
    ELSE LET c == path_in_cave_of_dice(w, tk.dir)
         IN IF c.val /\ is_dice_file_name(tk.file) # None
            THEN Done([c.w EXCEPT !.afs.files[tk.dir] =
                                     MapInsert(@, tk.file, InMemory("You rolled a"))],
                      [tk EXCEPT !.text = "You rolled a", !.roll = roll], Ok)
            ELSE Suspend(c.w, tk, "get_file_content:fetch_text", "text", tk.dir)

\* content: Option<Content>; roll: the value random_range gives if it is drawn
read_content_at(w, tk, content, roll) ==
    IF content = None THEN Done(w, tk, "No such file")
    ELSE IF content[1].tag = "InMemory" THEN Done(w, [tk EXCEPT !.text = content[1].text], Ok)
    ELSE LET c == path_in_cave_of_dice(w, tk.dir)
         IN IF c.val /\ is_dice_file_name(tk.file) # None
            THEN Done(c.w, [tk EXCEPT !.text = "You rolled a", !.roll = roll], Ok)
            ELSE Suspend(c.w, tk, "get_file_content:fetch_text", "text", tk.dir)

get_file_content(w, tk, roll) ==
    LET g == get_contents(w, tk.dir)
    IN IF g.ready THEN read_content_at(g.w, tk, Contents_get(g.val, tk.file), roll)
       ELSE Suspend(g.w, tk, "get_file_content:contents", "contents", tk.dir)

----------------------------------------------------------------------------
\* commands/builtin/filesystem.rs: Mkdir::execute, from the result of dir_exists on

Mkdir_execute_created(w, tk, exists) ==
    IF exists THEN Done(w, tk, "Directory already exists")
    ELSE IF path_in_abyss(tk.dir)
    THEN IF tk.dir = << >> THEN Done(w, tk, "Invalid path")
         ELSE IF tk.dir[Len(tk.dir)].tag # "In" THEN Done(w, tk, "Invalid path")
         ELSE LET parent == SubSeq(tk.dir, 1, Len(tk.dir) - 1)
                  dir_name == tk.dir[Len(tk.dir)].name
                  old == IF parent \in DOMAIN w.afs.dirs THEN w.afs.dirs[parent] ELSE {}
                  with_parent == MapInsert(w.afs.dirs, parent, old \cup {dir_name})
              IN Done([w EXCEPT !.afs = [files |-> MapInsert(w.afs.files, tk.dir, EmptyMap),
                                         dirs |-> MapInsert(with_parent, tk.dir, {})]],
                      tk, "")
    ELSE IF vfs_dir_exists(w.vfs, tk.dir) THEN Done(w, tk, "Directory already exists")
         ELSE Done([w EXCEPT !.vfs = vfs_create_dir(w.vfs, tk.dir)], tk, "")

Mkdir_execute(w, tk) ==
    LET e == dir_exists(w, tk.dir)
    IN IF e.ready THEN Mkdir_execute_created(e.w, tk, e.val)
       ELSE Suspend(e.w, tk, "Mkdir:dir_exists", "directories", super_dir(tk.dir)[1])

\* todo!(..): the call panics
todo(w, tk) == [w |-> w, tk |-> [tk EXCEPT !.pc = "panicked"]]

\* Rm::execute, from the parsed filepath on
Rm_execute(w, tk) ==
    IF path_in_abyss(tk.dir) THEN todo(w, tk)
    ELSE LET r == vfs_remove_file(w.vfs, FilePath(tk.dir, tk.file))
         IN Done([w EXCEPT !.vfs = r.vfs], tk, IF r.res THEN "" ELSE "No such file")

\* Rmdir::execute, from the parsed target_path on
Rmdir_execute(w, tk) ==
    IF path_in_abyss(tk.dir) THEN todo(w, tk)
    ELSE LET r == vfs_remove_dir(w.vfs, tk.dir)
         IN Done([w EXCEPT !.vfs = r.vfs], tk, IF r.res = Ok THEN "" ELSE r.res)

----------------------------------------------------------------------------
\* The continuation of a task whose listing fetch returned `text`

resume_listing(w, tk, text, roll) ==
    CASE tk.pc = "write_file_abyss:contents" ->
            write_file_abyss_retry(w, tk, Contents_from_file(text))
      [] tk.pc = "remove_file_abyss:contents" ->
            remove_file_abyss_retry(w, tk, Contents_from_file(text))
      [] tk.pc = "remove_dir_abyss:contents" ->
            remove_dir_abyss_directories(w, [tk EXCEPT !.contents = Contents_from_file(text)])
      [] tk.pc = "remove_dir_abyss:directories" ->
            remove_dir_abyss_parent(w, [tk EXCEPT !.directories = Directories_from_file(text)])
      [] tk.pc = "remove_dir_abyss:parent_dirs" ->
            remove_dir_abyss_retry(w, tk, Directories_from_file(text))
      [] tk.pc = "create_dir_abyss:parent_dirs" ->
            create_dir_abyss_retry(w, tk, Directories_from_file(text))
      [] tk.pc = "Mkdir:dir_exists" ->
            Mkdir_execute_created(w, tk, final_component(tk.dir)[1] \in Directories_from_file(text))
      [] tk.pc = "get_contents:fetch" ->
            Done(w, [tk EXCEPT !.contents = Contents_from_file(text)], Ok)
      [] tk.pc = "get_directories:fetch" ->
            Done(w, [tk EXCEPT !.directories = Directories_from_file(text)], Ok)
      [] tk.pc = "file_exists:contents" ->
            Done(w, tk, Bool(tk.file \in DOMAIN Contents_from_file(text)))
      [] tk.pc = "dir_exists:directories" ->
            Done(w, tk, Bool(final_component(tk.dir)[1] \in Directories_from_file(text)))
      [] tk.pc = "list_directory:directories" ->
            list_directory_contents(w, [tk EXCEPT !.directories = Directories_from_file(text)])
      [] tk.pc = "list_directory:contents" ->
            Done(w, [tk EXCEPT !.contents = Contents_from_file(text)], Ok)
      [] tk.pc = "get_file_content:contents" ->
            read_content_at(w, tk, Contents_get(Contents_from_file(text), tk.file), roll)


----------------------------------------------------------------------------
\* The inputs of the overlay operations and the remote tree they run against

TaskIds == {"t1", "t2"}

Quiescent == {"idle", "done", "panicked"}

ABYSS == << In("abyss") >>

ABYSS_X == << In("abyss"), In("x") >>

ABYSS_X_Y == << In("abyss"), In("x"), In("y") >>

ABYSS_N == << In("abyss"), In("n") >>

ABYSS_CAVE == << In("abyss"), In("cave_of_dice") >>

DirInputs == {ABYSS_X, ABYSS_N, ABYSS_CAVE}

ReadInputs == {ABYSS_X, ABYSS_CAVE}

FileInputs == {"f"}

TextInputs == {"v"}

\* The server's side files: content/abyss lists x and the mount; content/abyss/x
\* holds any of the listings below (a listing is the lines of the side file).
RemoteTrees ==
    { [files |-> (ABYSS :> << >>) @@ (ABYSS_X :> xf) @@ (ABYSS_X_Y :> << >>),
       dirs  |-> (ABYSS :> << "x", "", "cave_of_dice" >>) @@ (ABYSS_X :> xd)
                 @@ (ABYSS_X_Y :> << >>)] :
        xf \in { << >>, << "f" >> }, xd \in { << >>, << "y" >> } }

\* the text a file of the overlay has on the server, if it has one
remote_text(dir, file) ==
    IF dir \in DOMAIN remote.files /\ file \in DOMAIN Contents_from_file(remote.files[dir])
    THEN Some("remote")
    ELSE IF ~path_in_abyss(dir) /\ vfs_get_content(VIRTUAL_FS, FilePath(dir, file)) = Some(ToFetch)
         THEN Some("remote")
         ELSE None

----------------------------------------------------------------------------
\* Actions

\* the names a finished mutation added (miss: its sync attempt needed a fetch)
LocallyAdded(tk) ==
    IF tk.pc # "done" THEN {}
    ELSE IF tk.op = "write_file_abyss" /\ tk.res = Ok
         THEN {[kind |-> "file", dir |-> tk.dir, name |-> tk.file, miss |-> tk.needed]}
    ELSE IF (tk.op = "create_dir_abyss" /\ tk.res = Ok)
            \/ (tk.op = "Mkdir" /\ tk.res = "" /\ path_in_abyss(tk.dir))
         THEN {[kind |-> "dir", dir |-> super_dir(tk.dir)[1], name |-> final_component(tk.dir)[1],
                miss |-> tk.needed]}
    ELSE {}

LocallyRemoved(tk) ==
    IF tk.pc # "done" THEN {}
    ELSE IF tk.op = "remove_file_abyss" /\ tk.res = Ok
         THEN {[kind |-> "file", dir |-> tk.dir, name |-> tk.file]}
    ELSE IF tk.op = "remove_dir_abyss" /\ tk.res = Ok
         THEN {[kind |-> "dir", dir |-> super_dir(tk.dir)[1], name |-> final_component(tk.dir)[1]]}
    ELSE {}

\* the step of task t ends in r = [w, tk]
Commit(t, r) ==
    /\ ABYSS_FS' = r.w.afs
    /\ CAVE_OF_DICE_INITIALISED' = r.w.init
    /\ VIRTUAL_FS' = r.w.vfs
    /\ merges' = r.w.merges
    /\ lookups' = r.w.lookups
    /\ cached_fetches' = r.w.log
    /\ tasks' = [tasks EXCEPT ![t] = r.tk]
    /\ added' = added \cup LocallyAdded(r.tk)
    /\ removed' = removed \cup LocallyRemoved(r.tk)
    /\ UNCHANGED << CAVE_OF_DICE, remote, booted, vfs_last, auxVars >>

\* one operation at a time when ~conc; with conc, a task may start while
\* another is suspended at its fetch
MayStart(t, conc) ==
    /\ ops < MaxOps
    /\ tasks[t].pc \in Quiescent
    /\ ~conc => (t = "t1" /\ \A u \in TaskIds : tasks[u].pc \in Quiescent)

Begin(op, dir, file, text) ==
    [IdleTask EXCEPT !.op = op, !.dir = dir, !.file = file, !.text = text,
                     !.start = ABYSS_FS, !.start_init = CAVE_OF_DICE_INITIALISED]

WriteFileAbyss(t, conc, Dirs, Files) ==
    /\ MayStart(t, conc)
    /\ \E dir \in Dirs, file \in Files, text \in TextInputs :
          Commit(t, write_file_abyss(World, Begin("write_file_abyss", dir, file, text)))
    /\ ops' = ops + 1

RemoveFileAbyss(t, conc, Dirs, Files) ==
    /\ MayStart(t, conc)
    /\ \E dir \in Dirs, file \in Files :
          Commit(t, remove_file_abyss(World, Begin("remove_file_abyss", dir, file, "")))
    /\ ops' = ops + 1

RemoveDirAbyss(t, conc, Dirs) ==
    /\ MayStart(t, conc)
    /\ \E dir \in Dirs :
          Commit(t, remove_dir_abyss(World, Begin("remove_dir_abyss", dir, "", "")))
    /\ ops' = ops + 1

CreateDirAbyss(t, conc, Dirs) ==
    /\ MayStart(t, conc)
    /\ \E dir \in Dirs :
          Commit(t, create_dir_abyss(World, Begin("create_dir_abyss", dir, "", "")))
    /\ ops' = ops + 1

Mkdir(t, conc, Dirs) ==
    /\ MayStart(t, conc)
    /\ \E dir \in Dirs :
          Commit(t, Mkdir_execute(World, Begin("Mkdir", dir, "", "")))
    /\ ops' = ops + 1

Rm(t, conc, Dirs, Files) ==
    /\ MayStart(t, conc)
    /\ \E dir \in Dirs, file \in Files :
          Commit(t, Rm_execute(World, Begin("Rm", dir, file, "")))
    /\ ops' = ops + 1

Rmdir(t, conc, Dirs) ==
    /\ MayStart(t, conc)
    /\ \E dir \in Dirs :
          Commit(t, Rmdir_execute(World, Begin("Rmdir", dir, "", "")))
    /\ ops' = ops + 1

GetContents(t, conc, Dirs) ==
    /\ MayStart(t, conc)
    /\ \E dir \in Dirs :
          Commit(t, get_contents_op(World, Begin("get_contents", dir, "", "")))
    /\ ops' = ops + 1

GetDirectories(t, conc, Dirs) ==
    /\ MayStart(t, conc)
    /\ \E dir \in Dirs :
          Commit(t, get_directories_op(World, Begin("get_directories", dir, "", "")))
    /\ ops' = ops + 1

FileExists(t, conc, Dirs, Files) ==
    /\ MayStart(t, conc)
    /\ \E dir \in Dirs, file \in Files :
          Commit(t, file_exists(World, Begin("file_exists", dir, file, "")))
    /\ ops' = ops + 1

DirExists(t, conc, Dirs) ==
    /\ MayStart(t, conc)
    /\ \E dir \in Dirs :
          Commit(t, dir_exists_op(World, Begin("dir_exists", dir, "", "")))
    /\ ops' = ops + 1

ListDirectory(t, conc, Dirs) ==
    /\ MayStart(t, conc)
    /\ \E dir \in Dirs :
          Commit(t, list_directory(World, Begin("list_directory", dir, "", "")))
    /\ ops' = ops + 1

GetFileContent(t, conc, Dirs, Files) ==
    /\ MayStart(t, conc)
    /\ \E dir \in Dirs, file \in Files : \E roll \in Rolls(file) :
          Commit(t, get_file_content(World, Begin("get_file_content", dir, file, ""), roll))
    /\ ops' = ops + 1

\* the listing fetch task t awaits returns the side file
ListingFetchOk(t) ==
    /\ tasks[t].pc \notin Quiescent
    /\ tasks[t].await.kind \in {"contents", "directories"}
    /\ LET side == IF tasks[t].await.kind = "contents" THEN remote.files ELSE remote.dirs
       IN /\ tasks[t].await.path \in DOMAIN side
          /\ \E roll \in Rolls(tasks[t].file) :
                Commit(t, resume_listing(World, tasks[t], side[tasks[t].await.path], roll))
    /\ UNCHANGED ops

\* the listing fetch fails (no such side file, or the network): fetch_text
\* returns Err and the `.unwrap()` of get_contents / get_directories panics
ListingFetchErr(t) ==
    /\ tasks[t].pc \notin Quiescent
    /\ tasks[t].await.kind \in {"contents", "directories"}
    /\ tasks' = [tasks EXCEPT ![t].pc = "panicked"]
    /\ UNCHANGED << ABYSS_FS, CAVE_OF_DICE_INITIALISED, VIRTUAL_FS, CAVE_OF_DICE, remote,
                    ops, merges, lookups, cached_fetches, added, removed, booted, vfs_last,
                    auxVars >>

\* read_content_at: fetch_text(filepath.to_url()) returns the file's text
TextFetchOk(t) ==
    /\ tasks[t].pc = "get_file_content:fetch_text"
    /\ remote_text(tasks[t].dir, tasks[t].file) # None
    /\ Commit(t, Done(World, [tasks[t] EXCEPT !.text = remote_text(tasks[t].dir, tasks[t].file)[1]], Ok))
    /\ UNCHANGED ops

\* read_content_at: fetch_text fails and the Err is returned to the caller
TextFetchErr(t) ==
    /\ tasks[t].pc = "get_file_content:fetch_text"
    /\ Commit(t, Done(World, tasks[t], "Failed to fetch"))
    /\ UNCHANGED ops

NoPathCall ==
    [op |-> "none", s |-> << >>, next |-> << >>, relative |-> << >>, at_root |-> TRUE,
     text |-> << >>, out |-> << >>]

\* the summary of a call on VIRTUAL_FS: what was called, and what it returned
NoPrev == [op |-> "none", dir |-> root, file |-> "", res |-> ""]

\* cave_of_dice.rs: the build loop has not popped a node yet
NoBuild == [status |-> "idle", n |-> 0, depth |-> 0, i |-> 0, kids |-> 0]

\* input_history.rs InputHistory::new
InputHistory_new == [inputs |-> << >>, index |-> 0]

NoHistoryCall == [op |-> "none", input |-> "", res |-> None, before |-> InputHistory_new]

\* the last call on VIRTUAL_FS: its arguments (input is a manifest or a
\* session), its result (out is an exported session), the store before it,
\* and for remove_dir the call that came before it
NoCall ==
    [op |-> "none", dir |-> root, file |-> "", res |-> "", before |-> EmptyMap,
     text |-> "", input |-> << >>, out |-> << >>, prev |-> NoPrev]

Init ==
    /\ ABYSS_FS = AbyssFileSystem_new
    /\ CAVE_OF_DICE_INITIALISED = FALSE
    /\ VIRTUAL_FS = VirtualFilesystem_new
    /\ CAVE_OF_DICE \in CaveChoices
    /\ remote \in RemoteTrees
    /\ tasks = [t \in TaskIds |-> IdleTask]
    /\ ops = 0
    /\ merges = 0
    /\ lookups = 0
    /\ cached_fetches = {}
    /\ added = {}
    /\ removed = {}
    /\ booted = FALSE
    /\ vfs_last = NoCall
    /\ path_call = NoPathCall
    /\ build = NoBuild
    /\ INPUT_HISTORY = InputHistory_new
    /\ history_call = NoHistoryCall

\* the overlay, one operation at a time
Next ==
    \E t \in TaskIds :
        \/ WriteFileAbyss(t, FALSE, DirInputs, FileInputs)
        \/ RemoveFileAbyss(t, FALSE, DirInputs, FileInputs)
        \/ RemoveDirAbyss(t, FALSE, DirInputs)
        \/ CreateDirAbyss(t, FALSE, DirInputs)
        \/ Mkdir(t, FALSE, DirInputs)
        \/ GetContents(t, FALSE, ReadInputs)
        \/ GetDirectories(t, FALSE, ReadInputs)
        \/ FileExists(t, FALSE, ReadInputs, FileInputs)
        \/ DirExists(t, FALSE, ReadInputs)
        \/ ListDirectory(t, FALSE, ReadInputs)
        \/ GetFileContent(t, FALSE, ReadInputs, FileInputs)
        \/ ListingFetchOk(t)
        \/ ListingFetchErr(t)
        \/ TextFetchOk(t)
        \/ TextFetchErr(t)

Spec == Init /\ [][Next]_vars


----------------------------------------------------------------------------
\* The Eager Store on its own: bootstrap, then the calls the commands and the
\* editor channel make on VIRTUAL_FS

EAGER_A == << In("a") >>

EAGER_A_B == << In("a"), In("b") >>

EAGER_B == << In("b") >>

EagerDirs == {root, EAGER_A, EAGER_A_B, EAGER_B}

\* a manifest entry's path is the list of its '/'-separated components
Manifests ==
    { [files |-> << >>, directories |-> << >>],
      [files |-> << [name |-> "f", path |-> << "a" >>] >>,
       directories |-> << << "", "a", "b" >> >>],
      [files |-> << [name |-> "f", path |-> << "cave_of_dice" >>] >>,
       directories |-> << << "a" >>, << "cave_of_dice" >> >>],
      [files |-> << [name |-> "g", path |-> << "a", "b" >>] >>,
       directories |-> << << "a", "b" >> >>] }

EagerTexts == { "v", "w" }

EagerCall(op, dir, file, res) ==
    [NoCall EXCEPT !.op = op, !.dir = dir, !.file = file, !.res = res,
                   !.before = VIRTUAL_FS]

\* lib load_manifest: VIRTUAL_FS.initialize_from_manifest(&manifest)
LoadManifest ==
    /\ ~booted
    /\ \E manifest \in Manifests :
          /\ VIRTUAL_FS' = initialize_from_manifest(VIRTUAL_FS, manifest)
          /\ vfs_last' = [EagerCall("initialize_from_manifest", root, "", Ok)
                              EXCEPT !.input = manifest]
    /\ booted' = TRUE
    /\ UNCHANGED << overlayVars, ops, auxVars >>

\* channels.rs file_saved, non-abyss branch
VfsWriteFile ==
    /\ booted
    /\ \E dir \in EagerDirs, file \in FileInputs, text \in EagerTexts :
          /\ VIRTUAL_FS' = vfs_write_file(VIRTUAL_FS, FilePath(dir, file), text)
          /\ vfs_last' = [EagerCall("write_file", dir, file, Ok) EXCEPT !.text = text]
    /\ UNCHANGED << overlayVars, ops, booted, auxVars >>

\* Rm::execute, non-abyss branch
VfsRemoveFile ==
    /\ booted
    /\ \E dir \in EagerDirs, file \in FileInputs :
          LET r == vfs_remove_file(VIRTUAL_FS, FilePath(dir, file))
          IN /\ VIRTUAL_FS' = r.vfs
             /\ vfs_last' = EagerCall("remove_file", dir, file, Bool(r.res))
    /\ UNCHANGED << overlayVars, ops, booted, auxVars >>

\* Mkdir::execute on a path outside the overlay: no fetch, so one step
VfsMkdir ==
    /\ booted
    /\ \E dir \in EagerDirs :
          LET r == Mkdir_execute(World, Begin("Mkdir", dir, "", ""))
          IN /\ r.tk.pc = "done"
             /\ VIRTUAL_FS' = r.w.vfs
             /\ vfs_last' = EagerCall("Mkdir", dir, "", r.tk.res)
    /\ UNCHANGED << overlayVars, ops, booted, auxVars >>

\* Rmdir::execute, non-abyss branch
VfsRemoveDir ==
    /\ booted
    /\ \E dir \in EagerDirs :
          LET r == vfs_remove_dir(VIRTUAL_FS, dir)
          IN /\ VIRTUAL_FS' = r.vfs
             /\ vfs_last' = [EagerCall("remove_dir", dir, "", r.res)
                                EXCEPT !.prev = [op |-> vfs_last.op, dir |-> vfs_last.dir,
                                                 file |-> vfs_last.file,
                                                 res |-> vfs_last.res]]
    /\ UNCHANGED << overlayVars, ops, booted, auxVars >>

InitEager ==
    /\ Init
    /\ CAVE_OF_DICE = CaveOfDice({})
    /\ remote \in { r \in RemoteTrees : r.files[ABYSS_X] = << >> /\ r.dirs[ABYSS_X] = << >> }

NextEager ==
    \/ LoadManifest
    \/ VfsWriteFile
    \/ VfsRemoveFile
    \/ VfsMkdir
    \/ VfsRemoveDir

SpecEager == InitEager /\ [][NextEager]_vars


----------------------------------------------------------------------------
\* The facade over both stores: after the bootstrap, the helpers are called
\* with paths inside and outside the overlay

EAGER_CAVE == << In("cave_of_dice") >>

FacadeDirs == {EAGER_A, EAGER_CAVE, ABYSS_X, ABYSS_CAVE}

\* the paths the commands hand to the helpers; none before the bootstrap
FacadePaths == IF booted THEN FacadeDirs ELSE {}

NextFacade ==
    \/ LoadManifest
    \/ \E t \in TaskIds :
          \/ WriteFileAbyss(t, FALSE, FacadePaths \cap {ABYSS_X, ABYSS_CAVE}, FileInputs)
          \/ Mkdir(t, FALSE, FacadePaths)
          \/ GetContents(t, FALSE, FacadePaths)
          \/ GetDirectories(t, FALSE, FacadePaths)
          \/ FileExists(t, FALSE, FacadePaths, FileInputs)
          \/ DirExists(t, FALSE, FacadePaths)
          \/ ListDirectory(t, FALSE, FacadePaths)
          \/ GetFileContent(t, FALSE, FacadePaths, FileInputs)
          \/ ListingFetchOk(t)
          \/ ListingFetchErr(t)
          \/ TextFetchOk(t)
          \/ TextFetchErr(t)

SpecFacade == Init /\ [][NextFacade]_vars

----------------------------------------------------------------------------
\* Overlapping editor saves: each file_saved message spawns a task, and a task
\* suspended at its fetch lets the other run

ConcFiles == {"f", "g"}

NextConc ==
    \E t \in TaskIds :
        \/ WriteFileAbyss(t, TRUE, {ABYSS_X, ABYSS_CAVE}, ConcFiles)
        \/ ListingFetchOk(t)
        \/ ListingFetchErr(t)

SpecConc == Init /\ [][NextConc]_vars

----------------------------------------------------------------------------
\* The path algebra on its own: one call of normalised, cd, concat,
\* DirPath::parse or FilePath::parse on inputs of bounded size

MaxMoves == 3

MaxText == 5

MaxCur == 2

SeqsUpTo(S, n) == UNION { [1..k -> S] : k \in 0..n }

Moves == { In(<< "a" >>), In(<< "b" >>), Out }

\* home, user, ascend x3, projects
ComplexPath ==
    << In(<< "h" >>), In(<< "u" >>), Out, Out, Out, In(<< "p" >>) >>

\* "/a/../b/c.txt"
AbsoluteFileText ==
    << "/", "a", "/", ".", ".", "/", "b", "/", "c", ".", "t", "x", "t" >>

PathInputs == SeqsUpTo(Moves, MaxMoves)

CurrentDirInputs == SeqsUpTo(Moves, MaxCur)

PathTexts == SeqsUpTo({ "/", ".", "a" }, MaxText) \cup { AbsoluteFileText }

PathCall(op, s, next, relative, at_root, text, out) ==
    /\ path_call' = [op |-> op, s |-> s, next |-> next, relative |-> relative,
                     at_root |-> at_root, text |-> text, out |-> out]
    /\ UNCHANGED << overlayVars, eagerVars, ops, build, INPUT_HISTORY, history_call >>

Normalised ==
    /\ path_call = NoPathCall
    /\ \E s \in PathInputs \cup { ComplexPath }, at_root \in BOOLEAN :
          PathCall("normalised", s, << >>, << >>, at_root, << >>, normalised(s, at_root))

Cd ==
    /\ path_call = NoPathCall
    /\ \E s \in PathInputs, next \in Moves, at_root \in BOOLEAN :
          PathCall("cd", s, next, << >>, at_root, << >>, cd(s, next, at_root))

Concat ==
    /\ path_call = NoPathCall
    /\ \E base \in PathInputs, relative \in PathInputs, at_root \in BOOLEAN :
          PathCall("concat", base, << >>, relative, at_root, << >>,
                   concat(base, relative, at_root))

DirPathParse ==
    /\ path_call = NoPathCall
    /\ \E text \in PathTexts, current_dir \in CurrentDirInputs :
          PathCall("DirPath::parse", current_dir, << >>, << >>, TRUE, text,
                   DirPath_parse(text, current_dir))

FilePathParse ==
    /\ path_call = NoPathCall
    /\ \E text \in PathTexts, current_dir \in CurrentDirInputs :
          PathCall("FilePath::parse", current_dir, << >>, << >>, TRUE, text,
                   FilePath_parse(text, current_dir))

NextPaths ==
    \/ Normalised
    \/ Cd
    \/ Concat
    \/ DirPathParse
    \/ FilePathParse

SpecPaths == Init /\ [][NextPaths]_vars

----------------------------------------------------------------------------
\* commands/mod.rs: the session export and import, on an Eager Store whose
\* names are texts (sequences of characters).  A session is the parsed JSON
\* value: json says whether the text parsed, version is Some(v) when the
\* member is a string, files is Some(entries) when the member is an object,
\* its entries in the order the map iterates them, and an entry's value is
\* Some(content) when it is a string.

\* types.rs FilePath::to_string
FilePath_to_string(filepath) ==
    IF DirPath_to_string(filepath.dir) = << "/" >>
    THEN << "/" >> \o filepath.file
    ELSE DirPath_to_string(filepath.dir) \o << "/" >> \o filepath.file

\* path_parts.join("/"): an In move gives its name, an Out move ".."
RECURSIVE export_join(_)
export_join(dirpath) ==
    IF dirpath = << >> THEN << >>
    ELSE LET part == IF Head(dirpath).tag = "In" THEN Head(dirpath).name ELSE << ".", "." >>
         IN IF Len(dirpath) = 1 THEN part
            ELSE part \o << "/" >> \o export_join(Tail(dirpath))

export_full_path(dirpath, filename) ==
    IF dirpath = << >> THEN << "/" >> \o filename
    ELSE << "/" >> \o export_join(dirpath) \o << "/" >> \o filename

\* the files the export loop visits, with the content it reads for each
stored_files(vfs) ==
    { [dir |-> d, file |-> f, content |-> vfs[d][f]] : <<d, f>> \in
        UNION { { <<d, f>> : f \in DOMAIN vfs[d] } : d \in DOMAIN vfs } }

export_sessions_with_pending(vfs) ==
    LET all == stored_files(vfs)
        paths == { export_full_path(x.dir, x.file) : x \in all }
    IN { [version |-> "1.0", files |-> files] :
           files \in { m \in [paths -> { x.content.text : x \in all }] :
                         \A k \in paths : \E x \in all :
                            export_full_path(x.dir, x.file) = k /\ x.content.text = m[k] } }

\* export_session: files.insert(full_path, content) for every InMemory file;
\* were two files to give the same full_path, the one visited last would stay
export_sessions(vfs) ==
    LET resident == { x \in stored_files(vfs) : x.content.tag = "InMemory" }
        paths == { export_full_path(x.dir, x.file) : x \in resident }
    IN { [version |-> "1.0", files |-> files] :
           files \in { m \in [paths -> { x.content.text : x \in resident }] :
                         \A k \in paths : \E x \in resident :
                            export_full_path(x.dir, x.file) = k /\ x.content.text = m[k] } }

\* the loop of import_session over the entries; r is [vfs, count]
RECURSIVE import_files(_, _)
import_files(r, entries) ==
    IF entries = << >> THEN r
    ELSE LET e == Head(entries)
             filepath == FilePath_parse(e.path, root)
         IN import_files(IF e.value # None
                         THEN [vfs |-> vfs_write_file(r.vfs, filepath, e.value[1]),
                               count |-> r.count + 1]
                         ELSE r,
                         Tail(entries))

import_session_unversioned(vfs, session) ==
    IF ~session.json
    THEN [vfs |-> vfs, res |-> "Error: Failed to parse session file", count |-> 0]
    ELSE IF session.files = None
    THEN [vfs |-> vfs, res |-> "Error: Invalid session file: missing or invalid files",
          count |-> 0]
    ELSE LET r == import_files([vfs |-> vfs, count |-> 0], session.files[1])
         IN [vfs |-> r.vfs, res |-> "Imported", count |-> r.count]

import_session(vfs, session) ==
    IF ~session.json
    THEN [vfs |-> vfs, res |-> "Error: Failed to parse session file", count |-> 0]
    ELSE IF session.version = None
    THEN [vfs |-> vfs, res |-> "Error: Invalid session file: missing version", count |-> 0]
    ELSE IF session.version[1] # "1.0"
    THEN [vfs |-> vfs, res |-> "Error: Unsupported session version", count |-> 0]
    ELSE IF session.files = None
    THEN [vfs |-> vfs, res |-> "Error: Invalid session file: missing or invalid files",
          count |-> 0]
    ELSE LET r == import_files([vfs |-> vfs, count |-> 0], session.files[1])
         IN [vfs |-> r.vfs, res |-> "Imported", count |-> r.count]

\* the manifest as fetched: every path a text, split at '/'
manifest_components(manifest) ==
    [files |-> [i \in DOMAIN manifest.files |->
                  [name |-> manifest.files[i].name,
                   path |-> split_non_empty(manifest.files[i].path)]],
     directories |-> [i \in DOMAIN manifest.directories |->
                        split_non_empty(manifest.directories[i])]]

\* "/a/b/f", "a/f", "/a/../f"
SessionPaths ==
    { << "/", "a", "/", "b", "/", "f" >>, << "a", "/", "f" >>,
      << "/", "a", "/", ".", ".", "/", "f" >> }

\* a string, and a value that is not a string
SessionValues == { Some("v"), None }

\* the keys of a JSON object are distinct
SessionEntries ==
    { es \in SeqsUpTo([path : SessionPaths, value : SessionValues],
                      Cardinality(SessionPaths)) :
        \A i, j \in DOMAIN es : es[i].path = es[j].path => i = j }

SampleEntries == << [path |-> << "a", "/", "f" >>, value |-> Some("w")] >>

Sessions ==
    { [json |-> TRUE, version |-> Some("1.0"), files |-> Some(es)] : es \in SessionEntries }
    \cup { [json |-> j, version |-> v, files |-> f] :
             j \in BOOLEAN, v \in { Some("1.0"), Some("2.0"), None },
             f \in { None, Some(SampleEntries) } }

\* manifest.json with the pending files f and g of a/ and the directory a
SessionManifests ==
    { [files |-> << >>, directories |-> << >>],
      [files |-> << [name |-> << "f" >>, path |-> << "a" >>],
                    [name |-> << "g" >>, path |-> << "a", "/" >>] >>,
       directories |-> << << "a" >> >>] }

\* lib load_manifest
LoadSessionManifest ==
    /\ ~booted
    /\ \E manifest \in SessionManifests :
          /\ VIRTUAL_FS' = initialize_from_manifest(VIRTUAL_FS, manifest_components(manifest))
          /\ vfs_last' = [EagerCall("initialize_from_manifest", root, "", Ok)
                              EXCEPT !.input = manifest]
    /\ booted' = TRUE
    /\ UNCHANGED << overlayVars, ops, auxVars >>

\* the load-session command
ImportSession ==
    /\ booted
    /\ \E session \in Sessions :
          LET r == import_session(VIRTUAL_FS, session)
          IN /\ VIRTUAL_FS' = r.vfs
             /\ vfs_last' = [EagerCall("import_session", root, "", r.res)
                                EXCEPT !.input = session, !.out = r.count]
    /\ UNCHANGED << overlayVars, ops, booted, auxVars >>

\* the save-session command
ExportSession ==
    /\ booted
    /\ \E session \in export_sessions(VIRTUAL_FS) :
          vfs_last' = [EagerCall("export_session", root, "", Ok) EXCEPT !.out = session]
    /\ UNCHANGED << overlayVars, ops, booted, auxVars, VIRTUAL_FS >>

NextSession ==
    \/ LoadSessionManifest
    \/ ImportSession
    \/ ExportSession

SpecSession == InitEager /\ [][NextSession]_vars

----------------------------------------------------------------------------
\* The commands rm, rmdir and mkdir on both stores

NextCommands ==
    \/ LoadManifest
    \/ \E t \in TaskIds :
          \/ Rm(t, FALSE, FacadePaths, FileInputs)
          \/ Rmdir(t, FALSE, FacadePaths)
          \/ Mkdir(t, FALSE, FacadePaths)
          \/ ListingFetchOk(t)
          \/ ListingFetchErr(t)

SpecCommands == Init /\ [][NextCommands]_vars

----------------------------------------------------------------------------
\* Reads of the generated files of the procedural subtree, two at a time

CAVE_D4 == << In("abyss"), In("cave_of_dice"), In("d4") >>

DiceDirs == {CAVE_D4, ABYSS_X}

DiceFiles == {"d4.txt", "f"}

NextDice ==
    \E t \in TaskIds :
        \/ GetFileContent(t, TRUE, DiceDirs, DiceFiles)
        \/ GetContents(t, TRUE, DiceDirs)
        \/ ListingFetchOk(t)
        \/ ListingFetchErr(t)
        \/ TextFetchOk(t)
        \/ TextFetchErr(t)

SpecDice == Init /\ [][NextDice]_vars

----------------------------------------------------------------------------
\* cave_of_dice.rs, the main build loop (47-85), one node at a time.  The
\* node in hand is build = [status, n, depth, i, kids]: its size class, the
\* length of its path, the iteration of `for i in 1..=n` it is at and the
\* number of children pushed so far.

MaxDepth == 32

U8 == 256

route_range_through_next(n) == 1..(n + 1)

\* cave_of_dice.rs:70, for i in 1..=n
route_range(n) == 1..n

\* cave_of_dice.rs:71, n*(depth as u8) before it is stored in a u8
branching_product(n, depth) == n * (depth % U8)

\* the same product as a build without overflow checks stores it
branching_bound(n, depth) == branching_product(n, depth) % U8

\* random_range(0..bound): every draw of 3 or more takes the same branch
Draws(bound) == { r \in 0..3 : r < bound }

BuildRest == UNCHANGED << overlayVars, eagerVars, ops, path_call, INPUT_HISTORY, history_call >>

\* pops one of the six top directories d{n}: its class is its name's
BuildPopTop ==
    /\ build.status \in { "idle", "done" }
    /\ \E n \in DICE_SIZES :
          build' = [status |-> "loop", n |-> n, depth |-> 1, i |-> 1, kids |-> 0]
    /\ BuildRest

\* pops a route_{i} pushed by the node in hand: its class is drawn
BuildPopRoute ==
    /\ build.status = "done"
    /\ build.kids >= 1
    /\ build.depth < MaxDepth
    /\ \E n \in DICE_SIZES :
          build' = [status |-> "loop", n |-> n, depth |-> build.depth + 1, i |-> 1, kids |-> 0]
    /\ BuildRest

\* one iteration of the for loop; after the last one the node is inserted
BuildDraw ==
    /\ build.status = "loop"
    /\ build.i \in route_range(build.n)
    /\ LET product == branching_product(build.n, build.depth)
           bound == branching_bound(build.n, build.depth)
       IN  \/ /\ product >= U8         \* overflow checks on: the multiplication panics
              /\ build' = [build EXCEPT !.status = "panicked"]
           \/ /\ bound = 0             \* random_range panics on an empty range
              /\ build' = [build EXCEPT !.status = "panicked"]
           \/ /\ bound > 0
              /\ \E r \in Draws(bound) :
                    build' = [build EXCEPT
                                !.i = @ + 1,
                                !.kids = IF r < 3 THEN @ + 1 ELSE @,
                                !.status = IF build.i + 1 \in route_range(build.n)
                                           THEN "loop" ELSE "done"]
    /\ BuildRest

NextBuild ==
    \/ BuildPopTop
    \/ BuildPopRoute
    \/ BuildDraw

SpecBuild == Init /\ [][NextBuild]_vars

----------------------------------------------------------------------------
\* input_history.rs

add_input_unchecked(h, input) ==
    [inputs |-> Append(h.inputs, input), index |-> Len(h.inputs) + 1]

add_input(h, input) ==
    IF input # ""
    THEN [inputs |-> Append(h.inputs, input), index |-> Len(h.inputs) + 1]
    ELSE h

\* returns [h, res]; inputs[k] of the code is inputs[k + 1] here
arrow_up(h) ==
    IF h.index > 0
    THEN [h |-> [h EXCEPT !.index = @ - 1], res |-> Some(h.inputs[h.index])]
    ELSE [h |-> h, res |-> None]

arrow_down(h) ==
    IF h.index < Len(h.inputs)
    THEN [h |-> [h EXCEPT !.index = @ + 1],
          res |-> IF h.index + 1 < Len(h.inputs) THEN Some(h.inputs[h.index + 2])
                  ELSE Some("")]
    ELSE [h |-> h, res |-> None]

MaxInputs == 3

HistoryInputs == { "", "a", "b" }

AddInput ==
    /\ Len(INPUT_HISTORY.inputs) < MaxInputs
    /\ \E input \in HistoryInputs :
          /\ INPUT_HISTORY' = add_input(INPUT_HISTORY, input)
          /\ history_call' = [op |-> "add_input", input |-> input, res |-> None,
                              before |-> INPUT_HISTORY]
    /\ UNCHANGED << overlayVars, eagerVars, ops, path_call, build >>

ArrowUp ==
    /\ history_call' = [op |-> "arrow_up", input |-> "", res |-> arrow_up(INPUT_HISTORY).res,
                        before |-> INPUT_HISTORY]
    /\ INPUT_HISTORY' = arrow_up(INPUT_HISTORY).h
    /\ UNCHANGED << overlayVars, eagerVars, ops, path_call, build >>

ArrowDown ==
    /\ history_call' = [op |-> "arrow_down", input |-> "", res |-> arrow_down(INPUT_HISTORY).res,
                        before |-> INPUT_HISTORY]
    /\ INPUT_HISTORY' = arrow_down(INPUT_HISTORY).h
    /\ UNCHANGED << overlayVars, eagerVars, ops, path_call, build >>

NextHistory ==
    \/ AddInput
    \/ ArrowUp
    \/ ArrowDown

SpecHistory == Init /\ [][NextHistory]_vars

----------------------------------------------------------------------------
\* Vocabulary of the properties

Mutations == {"write_file_abyss", "remove_file_abyss", "remove_dir_abyss", "create_dir_abyss"}

Finished(tk, op) == tk.pc = "done" /\ tk.op = op

\* the process state at the call of task tk
StartWorld(tk) == [World EXCEPT !.afs = tk.start, !.init = tk.start_init]

\* the overlay at the call of tk, once the subtree trigger on tk's path has run
TriggeredStart(tk) == path_in_cave_of_dice(StartWorld(tk), tk.dir).w.afs

RemoteContents(path) == Contents_from_file(remote.files[path])

RemoteDirectories(path) == Directories_from_file(remote.dirs[path])

\* the listing of `path` the call of tk works with: the cached entry if there
\* was one when the call looked, else the listing the server gives
SeenContents(tk, path) ==
    IF path \in DOMAIN TriggeredStart(tk).files THEN TriggeredStart(tk).files[path]
    ELSE RemoteContents(path)

SeenDirectories(tk, path) ==
    IF path \in DOMAIN TriggeredStart(tk).dirs THEN TriggeredStart(tk).dirs[path]
    ELSE RemoteDirectories(path)

Range(seq) == { seq[i] : i \in DOMAIN seq }

IsStrictPrefix(d, p) == Len(p) > Len(d) /\ SubSeq(p, 1, Len(d)) = d

\* the cache entries the mutation of tk needs: << kind, path >>
NeededEntries(tk) ==
    CASE tk.op \in {"write_file_abyss", "remove_file_abyss"} -> { << "contents", tk.dir >> }
      [] tk.op = "create_dir_abyss" -> { << "directories", super_dir(tk.dir)[1] >> }
      [] tk.op = "remove_dir_abyss" ->
            { << "contents", tk.dir >>, << "directories", tk.dir >>,
              << "directories", super_dir(tk.dir)[1] >> }

\* the overlay at the call of tk with the needed entries it lacked cached
\* beforehand, each with the listing the server gives
Precached(tk) ==
    LET need(kind) == { e[2] : e \in { x \in NeededEntries(tk) : x[1] = kind } }
        newf == { q \in need("contents") : q \notin DOMAIN tk.start.files /\ q \in DOMAIN remote.files }
        newd == { q \in need("directories") : q \notin DOMAIN tk.start.dirs /\ q \in DOMAIN remote.dirs }
    IN [files |-> MapExtend(tk.start.files, [q \in newf |-> RemoteContents(q)]),
        dirs  |-> MapExtend(tk.start.dirs, [q \in newd |-> RemoteDirectories(q)])]

\* the same call run on the pre-cached overlay
CachedRun(tk) ==
    LET w0 == [StartWorld(tk) EXCEPT !.afs = Precached(tk)]
        t0 == [IdleTask EXCEPT !.op = tk.op, !.dir = tk.dir, !.file = tk.file, !.text = tk.text]
    IN CASE tk.op = "write_file_abyss" -> write_file_abyss(w0, t0)
         [] tk.op = "remove_file_abyss" -> remove_file_abyss(w0, t0)
         [] tk.op = "remove_dir_abyss" -> remove_dir_abyss(w0, t0)
         [] tk.op = "create_dir_abyss" -> create_dir_abyss(w0, t0)

----------------------------------------------------------------------------
\* C1: a mutation whose sync attempt returned NeedsFetch and that then fetched
\* the listings and retried ends with the same result and the same caches as
\* the same mutation run on an overlay where those listings were cached from
\* the start.
C1_RetryEqualsCached ==
    \A t \in TaskIds :
        (tasks[t].pc = "done" /\ tasks[t].op \in Mutations /\ tasks[t].needed)
        => /\ CachedRun(tasks[t]).tk.pc = "done"
           /\ CachedRun(tasks[t]).tk.res = tasks[t].res
           /\ CachedRun(tasks[t]).w.afs = ABYSS_FS

\* C2: Eager Store remove-directory on an existing directory succeeds iff the
\* directory holds no file and no stored path is a strict descendant of it;
\* when it fails (not empty, or no such directory) the store is as before.
C2_EagerRemoveDir ==
    vfs_last.op = "remove_dir"
    => LET b == vfs_last.before
           d == vfs_last.dir
       IN /\ d \in DOMAIN b =>
                ((vfs_last.res = Ok) <=>
                    (DOMAIN b[d] = {} /\ ~ \E p \in DOMAIN b : IsStrictPrefix(d, p)))
          /\ d \notin DOMAIN b => vfs_last.res = "Directory does not exist"
          /\ vfs_last.res # Ok => VIRTUAL_FS = b
          /\ vfs_last.res = Ok => VIRTUAL_FS = MapRemove(b, d)

\* C2 witness: a removal refused only because of a stored descendant
C2_Witness ==
    /\ vfs_last.op = "remove_dir"
    /\ vfs_last.res = "Directory not empty"
    /\ vfs_last.dir \in DOMAIN vfs_last.before
    /\ DOMAIN vfs_last.before[vfs_last.dir] = {}

\* C3: overlay remove-directory succeeds only if the target's Contents and
\* Directories are both empty and the parent's Directories contains the
\* target's name; on success the name is gone from the parent's cached set
\* and the target has no cache entry left.
C3_RemoveDirRequirements ==
    \A t \in TaskIds :
        (Finished(tasks[t], "remove_dir_abyss") /\ tasks[t].res = Ok)
        => LET tk == tasks[t]
               parent == super_dir(tk.dir)[1]
               name == final_component(tk.dir)[1]
           IN /\ DOMAIN SeenContents(tk, tk.dir) = {}
              /\ SeenDirectories(tk, tk.dir) = {}
              /\ name \in SeenDirectories(tk, parent)
              /\ parent \in DOMAIN ABYSS_FS.dirs
              /\ name \notin ABYSS_FS.dirs[parent]
              /\ tk.dir \notin DOMAIN ABYSS_FS.files
              /\ tk.dir \notin DOMAIN ABYSS_FS.dirs

\* the directory the call of tk is to remove has a file or a subdirectory
TargetNotEmpty(tk) ==
    DOMAIN SeenContents(tk, tk.dir) # {} \/ SeenDirectories(tk, tk.dir) # {}

\* C4 (as claimed): overlay remove-directory on a directory that has a file or
\* a subdirectory returns the not-empty error and leaves both caches exactly as
\* they were before the call.
C4_NotEmptyLeavesCaches ==
    \A t \in TaskIds :
        (Finished(tasks[t], "remove_dir_abyss") /\ TargetNotEmpty(tasks[t]))
        => /\ tasks[t].res = "Directory not empty"
           /\ ABYSS_FS = tasks[t].start

\* C4 (amended): overlay remove-directory on a directory that has a file or a
\* subdirectory returns the not-empty error and leaves both caches as they
\* were once the call's subtree trigger had run: the only change the call can
\* make is the one-shot merge, when its path names the mount.
C4_NotEmptyLeavesCachesAfterTrigger ==
    \A t \in TaskIds :
        (Finished(tasks[t], "remove_dir_abyss") /\ TargetNotEmpty(tasks[t]))
        => /\ tasks[t].res = "Directory not empty"
           /\ ABYSS_FS = TriggeredStart(tasks[t])

\* C4 witness: a removal that fetched a non-empty listing and was refused
C4_Witness ==
    \E t \in TaskIds :
        /\ Finished(tasks[t], "remove_dir_abyss")
        /\ tasks[t].dir \notin DOMAIN tasks[t].start.files
        /\ tasks[t].nfetch > 0
        /\ TargetNotEmpty(tasks[t])
        /\ tasks[t].res = "Directory not empty"


\* a write-file into tk.dir whose sync attempt needed a fetch has completed
MissWriteCompleted(dir) ==
    \E a \in added : a.kind = "file" /\ a.dir = dir /\ a.miss

\* the overlay directory `dir` has been removed by a completed remove-directory
DirRemoved(dir) ==
    \E r \in removed :
        r.kind = "dir" /\ super_dir(dir) # None /\ r.dir = super_dir(dir)[1]
                       /\ r.name = final_component(dir)[1]

\* a write-file that completed after a cache miss issued exactly one fetch,
\* of its directory's file listing, and left the directory cached with the file
MissWriteFetchedOnce ==
    \A t \in TaskIds :
        (Finished(tasks[t], "write_file_abyss") /\ tasks[t].needed)
        => /\ tasks[t].nfetch = 1
           /\ tasks[t].await = [kind |-> "contents", path |-> tasks[t].dir]
           /\ tasks[t].dir \in DOMAIN ABYSS_FS.files
           /\ tasks[t].file \in DOMAIN ABYSS_FS.files[tasks[t].dir]
           /\ ABYSS_FS.files[tasks[t].dir][tasks[t].file] = InMemory(tasks[t].text)

\* C5 (as claimed): after a write-file into a directory D whose Contents was
\* not cached, exactly one fetch of D's file listing has been issued and D is
\* cached with the written file; every later write-file into D issues no
\* fetch; no operation fetches a listing for a path whose entry is cached.
C5_WriteFetchesOnce ==
    /\ MissWriteFetchedOnce
    /\ \A t \in TaskIds :
          (tasks[t].op = "write_file_abyss" /\ MissWriteCompleted(tasks[t].dir))
          => tasks[t].pc \in {"done"}
    /\ cached_fetches = {}

\* C5 (amended): after a write-file into a directory D whose Contents was not
\* cached, exactly one fetch of D's file listing has been issued and D is
\* cached with the written file; a later write-file into D issues no fetch
\* unless D was removed from the overlay in between (the removal purges D's
\* entries); no operation fetches a listing for a path whose entry is cached.
C5_WriteFetchesOnceUntilRemoved ==
    /\ MissWriteFetchedOnce
    /\ \A t \in TaskIds :
          (tasks[t].op = "write_file_abyss" /\ MissWriteCompleted(tasks[t].dir))
          => (tasks[t].pc \in {"done"} \/ DirRemoved(tasks[t].dir))
    /\ \A t \in TaskIds :
          (Finished(tasks[t], "write_file_abyss")
              /\ tasks[t].dir \in DOMAIN TriggeredStart(tasks[t]).files)
          => (~tasks[t].needed /\ tasks[t].nfetch = 0)
    /\ cached_fetches = {}

\* C5 witness: a write-file that needed no fetch, into a directory an earlier
\* cache-miss write-file had fetched and cached
C5_Witness ==
    \E t \in TaskIds :
        /\ Finished(tasks[t], "write_file_abyss")
        /\ ~tasks[t].needed
        /\ tasks[t].nfetch = 0
        /\ tasks[t].dir = ABYSS_X
        /\ MissWriteCompleted(tasks[t].dir)

\* C6: get_contents(P) and get_directories(P) on an overlay path P are
\* read-through: once either has returned, the listing of P is in the cache
\* under P (so that a second read of P finds it and fetches nothing).
C6_ReadThrough ==
    \A t \in TaskIds :
        /\ (Finished(tasks[t], "get_contents") /\ path_in_abyss(tasks[t].dir))
              => tasks[t].dir \in DOMAIN ABYSS_FS.files
        /\ (Finished(tasks[t], "get_directories") /\ path_in_abyss(tasks[t].dir))
              => tasks[t].dir \in DOMAIN ABYSS_FS.dirs

\* the names of `kind` locally added to / removed from the directory `dir`
AddedNames(kind, dir) == { a.name : a \in { x \in added : x.kind = kind /\ x.dir = dir } }

RemovedNames(kind, dir) == { r.name : r \in { x \in removed : x.kind = kind /\ x.dir = dir } }

\* C7: every cached Contents / Directories entry of a directory the server
\* lists is complete: it holds every authoritative name that was not locally
\* removed, and nothing but authoritative names and locally added ones.
C7_CachedEntriesComplete ==
    /\ \A p \in DOMAIN ABYSS_FS.dirs \cap DOMAIN remote.dirs :
          /\ (RemoteDirectories(p) \ RemovedNames("dir", p)) \subseteq ABYSS_FS.dirs[p]
          /\ ABYSS_FS.dirs[p] \subseteq (RemoteDirectories(p) \cup AddedNames("dir", p))
    /\ \A p \in DOMAIN ABYSS_FS.files \cap DOMAIN remote.files :
          /\ (DOMAIN RemoteContents(p) \ RemovedNames("file", p)) \subseteq DOMAIN ABYSS_FS.files[p]
          /\ DOMAIN ABYSS_FS.files[p] \subseteq (DOMAIN RemoteContents(p) \cup AddedNames("file", p))

\* C8: the merge of the procedural subtree runs at most once: not before the
\* first lookup of a path containing the mount name, exactly once from that
\* lookup on however many lookups follow, and the one-shot flag stays true.
C8_MergeAtMostOnce ==
    /\ merges <= 1
    /\ lookups = 0 => (merges = 0 /\ ~CAVE_OF_DICE_INITIALISED)
    /\ lookups >= 1 => (merges = 1 /\ CAVE_OF_DICE_INITIALISED)

\* C8 witness: a second lookup of a mount path has run and one merge was made
C8_Witness == lookups >= 2 /\ merges = 1 /\ CAVE_OF_DICE_INITIALISED

DomainErrors == {"No such file", "Directory not empty", "Invalid path"}

\* C9: the NeedsFetch of a sync attempt never reaches the caller of an overlay
\* mutation: the operation fetches, retries exactly once through the
\* *_with_data variant, and the retry returns success or a domain error; no
\* fetch is issued after the retry, and no retry is made without a NeedsFetch.
C9_NeedsFetchHandled ==
    \A t \in TaskIds :
        tasks[t].op \in Mutations
        => /\ tasks[t].res # NeedsFetch
           /\ tasks[t].retries <= 1
           /\ ~tasks[t].late
           /\ (tasks[t].pc = "done" /\ tasks[t].needed)
                 => (tasks[t].retries = 1 /\ tasks[t].res \in {Ok} \cup DomainErrors)
           /\ (tasks[t].pc = "done" /\ ~tasks[t].needed)
                 => (tasks[t].retries = 0 /\ tasks[t].nfetch = 0 /\ tasks[t].res = Ok)

\* C9 witness: a retry with fetched data that returned a domain error
C9_Witness ==
    \E t \in TaskIds :
        /\ Finished(tasks[t], "remove_file_abyss")
        /\ tasks[t].needed
        /\ tasks[t].retries = 1
        /\ tasks[t].res = "No such file"

\* C10: no operation terminates abruptly because a fetch failed.
C10_NoAbruptTermination ==
    \A t \in TaskIds : tasks[t].pc # "panicked"


\* C11: a facade operation on a path whose first move is not `abyss` leaves
\* the Caching Overlay and the one-shot merge flag unchanged; an operation on
\* a path whose first move is `abyss` leaves the Eager Store unchanged, and
\* when it changes the overlay under the mount the trigger has run.
C11_Routing ==
    [][
        /\ \A t \in TaskIds :
              (tasks'[t] # tasks[t])
              => (IF path_in_abyss(tasks'[t].dir)
                  THEN /\ VIRTUAL_FS' = VIRTUAL_FS
                       /\ (ABYSS_FS' # ABYSS_FS /\ In("cave_of_dice") \in Range(tasks'[t].dir))
                             => CAVE_OF_DICE_INITIALISED'
                  ELSE /\ ABYSS_FS' = ABYSS_FS
                       /\ CAVE_OF_DICE_INITIALISED' = CAVE_OF_DICE_INITIALISED)
        /\ (vfs_last' # vfs_last)
              => (ABYSS_FS' = ABYSS_FS /\ CAVE_OF_DICE_INITIALISED' = CAVE_OF_DICE_INITIALISED)
    ]_vars

\* C12: create-directory on the Caching Overlay for a path P, on the sync
\* path or through fetch-and-retry, ends with P's name added to the parent's
\* cached Directories, every name the parent had before (cached, or listed by
\* the server when it was not cached) retained, and empty cached Contents and
\* Directories installed for P, so that a read of P finds them and fetches
\* nothing.
C12_CreateDirInstalls ==
    \A t \in TaskIds :
        Finished(tasks[t], "create_dir_abyss")
        => LET tk == tasks[t]
               parent == super_dir(tk.dir)[1]
               name == final_component(tk.dir)[1]
           IN /\ tk.res = Ok
              /\ parent \in DOMAIN ABYSS_FS.dirs
              /\ ABYSS_FS.dirs[parent] = SeenDirectories(tk, parent) \cup {name}
              /\ tk.dir \in DOMAIN ABYSS_FS.files
              /\ ABYSS_FS.files[tk.dir] = EmptyMap
              /\ tk.dir \in DOMAIN ABYSS_FS.dirs
              /\ ABYSS_FS.dirs[tk.dir] = {}
              /\ get_contents(World, tk.dir).ready
              /\ get_directories(World, tk.dir).ready

\* C12 witness: a new directory created through fetch-and-retry under a
\* parent the server lists other names for
C12_Witness ==
    \E t \in TaskIds :
        /\ Finished(tasks[t], "create_dir_abyss")
        /\ tasks[t].dir = ABYSS_N
        /\ tasks[t].needed
        /\ tasks[t].nfetch = 1
        /\ "x" \in ABYSS_FS.dirs[ABYSS]
        /\ "n" \in ABYSS_FS.dirs[ABYSS]

FileMutations == {"write_file_abyss", "remove_file_abyss"}

\* the overlay differs from `before` at most in the Contents entry of `dir`
OnlyContentsOf(dir, before) ==
    /\ ABYSS_FS.dirs = before.dirs
    /\ DOMAIN ABYSS_FS.files \ {dir} = DOMAIN before.files \ {dir}
    /\ \A p \in DOMAIN ABYSS_FS.files \ {dir} : ABYSS_FS.files[p] = before.files[p]

\* a write-file or delete-file has issued at most one fetch, of the file
\* listing of its target directory
FetchesOnlyTargetListing ==
    \A t \in TaskIds :
        tasks[t].op \in FileMutations
        => /\ tasks[t].nfetch <= 1
           /\ tasks[t].nfetch = 1
                 => tasks[t].await = [kind |-> "contents", path |-> tasks[t].dir]

\* C13 (as claimed): write-file and delete-file on the Caching Overlay fetch
\* at most the target directory's file listing and change only the target
\* directory's Contents entry: every Directories entry and every other
\* directory's Contents entry is as it was before the call.
C13_FileMutationFrame ==
    /\ FetchesOnlyTargetListing
    /\ \A t \in TaskIds :
          (tasks[t].pc = "done" /\ tasks[t].op \in FileMutations)
          => OnlyContentsOf(tasks[t].dir, tasks[t].start)

\* C13 (amended): write-file and delete-file on the Caching Overlay fetch at
\* most the target directory's file listing and, apart from the one-shot merge
\* of the procedural subtree that the call runs first when its path contains
\* the mount name, change only the target directory's Contents entry.
C13_FileMutationFrameAfterTrigger ==
    /\ FetchesOnlyTargetListing
    /\ \A t \in TaskIds :
          (tasks[t].pc = "done" /\ tasks[t].op \in FileMutations)
          => OnlyContentsOf(tasks[t].dir, TriggeredStart(tasks[t]))

\* C13 witness: a delete-file that fetched its directory's listing and removed
\* the file while other entries were cached
C13_Witness ==
    \E t \in TaskIds :
        /\ Finished(tasks[t], "remove_file_abyss")
        /\ tasks[t].needed
        /\ tasks[t].nfetch = 1
        /\ tasks[t].res = Ok
        /\ DOMAIN tasks[t].start.dirs # {}
        /\ tasks[t].dir \in DOMAIN ABYSS_FS.files

\* two finished write-files into the same directory, of different files, that
\* both found the directory uncached: both were suspended at their fetch
Overlapped(t, u) ==
    /\ t # u
    /\ Finished(tasks[t], "write_file_abyss") /\ tasks[t].needed
    /\ Finished(tasks[u], "write_file_abyss") /\ tasks[u].needed
    /\ tasks[t].dir = tasks[u].dir
    /\ tasks[t].file # tasks[u].file

\* C14: when two write-files to different files of the same uncached
\* directory were both suspended at their fetch, the one that resumes last
\* writes its fetched listing back unconditionally: after both have completed
\* the directory's cache entry is the server's listing plus the file of one
\* writer only, and the other writer's update is absent from the cache.
C14_LastWriterReplaces ==
    \A t, u \in TaskIds :
        Overlapped(t, u)
        => \E last \in {t, u} :
              ABYSS_FS.files[tasks[t].dir] =
                  MapInsert(RemoteContents(tasks[t].dir), tasks[last].file,
                            InMemory(tasks[last].text))

\* C14 witness: both writers have completed and the file one of them wrote is
\* not in the directory's cache entry
C14_Witness ==
    \E t, u \in TaskIds :
        /\ Overlapped(t, u)
        /\ tasks[t].file \notin DOMAIN ABYSS_FS.files[tasks[t].dir]
        /\ tasks[u].file \in DOMAIN ABYSS_FS.files[tasks[t].dir]

\* C15: normalised(s, true) is idempotent: normalising its result again
\* under clamp_at_root = true gives the same path.
C15_NormalisedIdempotent ==
    (path_call.op = "normalised" /\ path_call.at_root)
    => normalised(path_call.out, TRUE) = path_call.out

\* C15 witness: a normalisation that cancelled moves of its input
C15_Witness ==
    /\ path_call.op = "normalised"
    /\ path_call.at_root
    /\ Out \in Range(path_call.s)
    /\ path_call.out # << >>
    /\ Len(path_call.out) < Len(path_call.s)

\* a path at or above the root: no descend move in it
AtOrAboveRoot(path) == \A i \in DOMAIN path : path[i] = Out

\* the number of "/.." tokens a rendered path starts with
RECURSIVE LeadingAscendTokens(_)
LeadingAscendTokens(str) ==
    IF Len(str) >= 3 /\ SubSeq(str, 1, 3) = << "/", ".", "." >>
          /\ (Len(str) = 3 \/ str[4] = "/")
    THEN 1 + LeadingAscendTokens(SubSeq(str, 4, Len(str)))
    ELSE 0

\* C16: cd with an ascend move on a path at or above the root: under
\* clamp_at_root = true the root stays the root (the empty sequence, rendered
\* "/"); under clamp_at_root = false the result renders with exactly one more
\* leading ascend token than the path had before.
C16_AscendAtRoot ==
    (path_call.op = "cd" /\ path_call.next = Out /\ AtOrAboveRoot(path_call.s))
    => /\ (path_call.at_root /\ path_call.s = root)
             => (path_call.out = root /\ DirPath_to_string(path_call.out) = << "/" >>)
       /\ ~path_call.at_root
             => LeadingAscendTokens(DirPath_to_string(path_call.out))
                  = LeadingAscendTokens(DirPath_to_string(path_call.s)) + 1

\* C16 witness: an unclamped ascend from the root
C16_Witness ==
    /\ path_call.op = "cd"
    /\ path_call.next = Out
    /\ ~path_call.at_root
    /\ path_call.s = root
    /\ DirPath_to_string(path_call.out) = << "/", ".", "." >>

\* C17: under clamp_at_root = false an ascend move cancels only a directly
\* preceding descend move: on a path whose last move is an ascend marker it
\* keeps the marker and appends one more, on a path whose last move is a
\* descend it removes that move; home, user, ascend x3, projects renders
\* "/../projects".
C17_AscendsDoNotCancel ==
    /\ (path_call.op = "cd" /\ path_call.next = Out /\ ~path_call.at_root /\ path_call.s # << >>)
          => IF path_call.s[Len(path_call.s)] = Out
             THEN path_call.out = Append(path_call.s, Out)
             ELSE path_call.out = SubSeq(path_call.s, 1, Len(path_call.s) - 1)
    /\ (path_call.op = "normalised" /\ ~path_call.at_root /\ path_call.s = ComplexPath)
          => DirPath_to_string(path_call.out) = << "/", ".", ".", "/", "p" >>

\* C17 witness: an unclamped ascend on a path that ends with two ascend markers
C17_Witness ==
    /\ path_call.op = "cd"
    /\ path_call.next = Out
    /\ ~path_call.at_root
    /\ path_call.s = << Out, Out >>
    /\ path_call.out = << Out, Out, Out >>

\* the moves i.. of `relative` applied in order with cd(_, true)
RECURSIVE CdEachFrom(_, _, _)
CdEachFrom(path, relative, i) ==
    IF i > Len(relative) THEN path
    ELSE CdEachFrom(cd(path, relative[i], TRUE), relative, i + 1)

\* C18: concat(base, relative, true) equals the path obtained by applying
\* each move of relative, in order, to base with cd(_, true), and the two
\* render to the same string.
C18_ConcatIsSequentialCd ==
    (path_call.op = "concat" /\ path_call.at_root)
    => /\ path_call.out = CdEachFrom(path_call.s, path_call.relative, 1)
       /\ DirPath_to_string(path_call.out)
             = DirPath_to_string(CdEachFrom(path_call.s, path_call.relative, 1))

\* C18 witness: a clamped concat whose relative path ascends out of the base
C18_Witness ==
    /\ path_call.op = "concat"
    /\ path_call.at_root
    /\ path_call.s # << >>
    /\ Len(path_call.relative) = 3
    /\ path_call.relative[1] = Out /\ path_call.relative[2] = Out
    /\ Len(path_call.out) = 1

\* C19: parsing an absolute path text gives a result that does not depend on
\* the current directory; FilePath::parse("/a/../b/c.txt", current_dir) is the
\* file c.txt in directory /b for every current_dir.
C19_AbsoluteParse ==
    (path_call.op = "FilePath::parse" /\ starts_with_slash(path_call.text))
    => /\ path_call.out = FilePath_parse(path_call.text, root)
       /\ path_call.text = AbsoluteFileText
             => /\ path_call.out.file = << "c", ".", "t", "x", "t" >>
                /\ path_call.out.dir = << In(<< "b" >>) >>
                /\ DirPath_to_string(path_call.out.dir) = << "/", "b" >>

\* C19 witness: "/a/../b/c.txt" parsed against a current directory other than
\* the root
C19_Witness ==
    /\ path_call.op = "FilePath::parse"
    /\ path_call.text = AbsoluteFileText
    /\ Len(path_call.s) = 2

ParseCalls == {"DirPath::parse", "FilePath::parse"}

\* the directory path a parse call returned
ParsedDir == IF path_call.op = "DirPath::parse" THEN path_call.out ELSE path_call.out.dir

IsNormalised(path) == Out \notin Range(path) /\ normalised(path, TRUE) = path

\* C20 (as claimed): for every path text and every current_dir of type
\* DirPath, the directory path returned by DirPath::parse, and the dir of
\* FilePath::parse, contains no ascend marker and normalised(true) returns it
\* unchanged.
C20_ParseNormalised ==
    path_call.op \in ParseCalls => IsNormalised(ParsedDir)

\* C20 (amended): for every path text and every current_dir that contains no
\* ascend marker, the directory path returned by DirPath::parse, and the dir
\* of FilePath::parse, contains no ascend marker and normalised(true) returns
\* it unchanged; for an absolute text this holds for every current_dir.
C20_ParseNormalisedFromNormalised ==
    (path_call.op \in ParseCalls
        /\ (Out \notin Range(path_call.s) \/ starts_with_slash(path_call.text)))
    => IsNormalised(ParsedDir)

\* C20 witness: a relative text with ".." parsed against a current directory
\* without ascend markers
C20_Witness ==
    /\ path_call.op = "DirPath::parse"
    /\ Out \notin Range(path_call.s)
    /\ Len(path_call.s) = 2
    /\ path_call.text = << ".", ".", "/", "a" >>
    /\ Len(path_call.out) = 2

\* the remove_dir of vfs_last came right after the delete-file that took the
\* last file out of its directory
LastFileDeleted ==
    /\ vfs_last.prev.op = "remove_file"
    /\ vfs_last.prev.dir = vfs_last.dir
    /\ vfs_last.prev.res = Bool(TRUE)
    /\ vfs_last.dir \in DOMAIN vfs_last.before
    /\ DOMAIN vfs_last.before[vfs_last.dir] = {}

\* C21: in the Eager Store, for a directory D with no stored descendant
\* directory: remove_dir(D) fails with "Directory not empty", changing
\* nothing, as long as D holds a file; called right after the delete-file
\* that removed D's last file, it succeeds and D no longer exists.
C21_RemoveAfterLastFile ==
    (/\ vfs_last.op = "remove_dir"
     /\ vfs_last.dir \in DOMAIN vfs_last.before
     /\ ~ \E p \in DOMAIN vfs_last.before : IsStrictPrefix(vfs_last.dir, p))
    => /\ DOMAIN vfs_last.before[vfs_last.dir] # {}
             => (vfs_last.res = "Directory not empty" /\ VIRTUAL_FS = vfs_last.before)
       /\ LastFileDeleted
             => (vfs_last.res = Ok /\ ~vfs_dir_exists(VIRTUAL_FS, vfs_last.dir))

\* C21 witness: a directory removed right after its last file was deleted
C21_Witness ==
    /\ vfs_last.op = "remove_dir"
    /\ LastFileDeleted
    /\ vfs_last.dir = EAGER_A_B
    /\ vfs_last.res = Ok
    /\ EAGER_A_B \notin DOMAIN VIRTUAL_FS

\* every directory entry of the store other than dir is as in `before`
OtherDirsKept(before, dir) ==
    /\ DOMAIN VIRTUAL_FS \ {dir} = DOMAIN before \ {dir}
    /\ \A e \in DOMAIN before \ {dir} : VIRTUAL_FS[e] = before[e]

\* every file of dir other than file is as in `before`
OtherFilesKept(before, dir, file) ==
    LET old == IF dir \in DOMAIN before THEN before[dir] ELSE EmptyMap
    IN /\ dir \in DOMAIN VIRTUAL_FS => DOMAIN VIRTUAL_FS[dir] \ {file} = DOMAIN old \ {file}
       /\ dir \notin DOMAIN VIRTUAL_FS => dir \notin DOMAIN before
       /\ \A g \in DOMAIN old \ {file} : VIRTUAL_FS[dir][g] = old[g]

\* C22: after write_file(p, c) on the Eager Store, get_content(p) is the
\* resident content c, whatever p held before; p's directory has an entry;
\* every other file and every other directory entry is unchanged.
C22_EagerWrite ==
    vfs_last.op = "write_file"
    => /\ vfs_get_content(VIRTUAL_FS, FilePath(vfs_last.dir, vfs_last.file))
             = Some(InMemory(vfs_last.text))
       /\ vfs_dir_exists(VIRTUAL_FS, vfs_last.dir)
       /\ OtherDirsKept(vfs_last.before, vfs_last.dir)
       /\ OtherFilesKept(vfs_last.before, vfs_last.dir, vfs_last.file)

\* C22 witness: a write that replaced a resident content of another value, in
\* a directory that holds another file
C22_Witness ==
    /\ vfs_last.op = "write_file"
    /\ vfs_last.dir \in DOMAIN vfs_last.before
    /\ vfs_last.file \in DOMAIN vfs_last.before[vfs_last.dir]
    /\ vfs_last.before[vfs_last.dir][vfs_last.file] \notin { ToFetch, InMemory(vfs_last.text) }
    /\ DOMAIN VIRTUAL_FS[vfs_last.dir] # { vfs_last.file }

\* C23: remove_file on the Eager Store returns true iff the file was present;
\* afterwards the file is absent, its directory has an entry if it had one
\* (also when it now holds zero files), and every other file and directory is
\* unchanged.
C23_EagerDelete ==
    vfs_last.op = "remove_file"
    => /\ vfs_last.res
             = Bool(vfs_get_content(vfs_last.before, FilePath(vfs_last.dir, vfs_last.file)) # None)
       /\ vfs_get_content(VIRTUAL_FS, FilePath(vfs_last.dir, vfs_last.file)) = None
       /\ vfs_dir_exists(VIRTUAL_FS, vfs_last.dir) = vfs_dir_exists(vfs_last.before, vfs_last.dir)
       /\ OtherDirsKept(vfs_last.before, vfs_last.dir)
       /\ OtherFilesKept(vfs_last.before, vfs_last.dir, vfs_last.file)

\* C23 witness: the only file of a directory deleted, the directory kept
C23_Witness ==
    /\ vfs_last.op = "remove_file"
    /\ vfs_last.res = Bool(TRUE)
    /\ vfs_last.dir \in DOMAIN VIRTUAL_FS
    /\ DOMAIN VIRTUAL_FS[vfs_last.dir] = {}
    /\ vfs_last.dir # root

\* the directory a manifest path names: one descend move per non-empty component
ListedPath(components) ==
    LET names == SelectSeq(components, LAMBDA c : c # "")
    IN [i \in 1..Len(names) |-> In(names[i])]

Bootstrapped == vfs_last.op = "initialize_from_manifest"

\* C24: after the Eager Store is bootstrapped from a manifest, every listed
\* directory and every file's containing directory has an entry, and every
\* manifest file is present in its directory as a pending content marker;
\* no file of the store is resident.
C24_Bootstrap ==
    Bootstrapped
    => /\ \A i \in DOMAIN vfs_last.input.directories :
             vfs_dir_exists(VIRTUAL_FS, ListedPath(vfs_last.input.directories[i]))
       /\ \A i \in DOMAIN vfs_last.input.files :
             LET e == vfs_last.input.files[i]
             IN /\ vfs_dir_exists(VIRTUAL_FS, ListedPath(e.path))
                /\ vfs_get_content(VIRTUAL_FS, FilePath(ListedPath(e.path), e.name))
                      = Some(ToFetch)
       /\ \A d \in DOMAIN VIRTUAL_FS : \A f \in DOMAIN VIRTUAL_FS[d] :
             VIRTUAL_FS[d][f] = ToFetch

\* C24 witness: a bootstrap from a manifest that lists the directory of one of
\* its files
C24_Witness ==
    /\ Bootstrapped
    /\ \E i \in DOMAIN vfs_last.input.files, j \in DOMAIN vfs_last.input.directories :
          /\ ListedPath(vfs_last.input.files[i].path)
                = ListedPath(vfs_last.input.directories[j])
          /\ vfs_last.input.files[i].name
                \in DOMAIN VIRTUAL_FS[ListedPath(vfs_last.input.files[i].path)]

\* C25: after the Eager Store is bootstrapped from a manifest, every ancestor
\* directory of every listed directory has an Eager Store entry, whether or
\* not the manifest lists that ancestor.
C25_AncestorsBootstrapped ==
    Bootstrapped
    => \A i \in DOMAIN vfs_last.input.directories :
          LET dir == ListedPath(vfs_last.input.directories[i])
          IN \A n \in 0..Len(dir) : vfs_dir_exists(VIRTUAL_FS, SubSeq(dir, 1, n))

\* exists(dir) as the helper dir_exists answers it on a path of the Eager Store
EagerExists(dir) == dir_exists(World, dir).val

\* C26: in every reachable state of the Eager Store every existing non-root
\* directory has an existing parent: exists(dir) implies exists(parent(dir)).
C26_ParentsExist ==
    \A dir \in EagerDirs \ {root} :
        EagerExists(dir) => EagerExists(super_dir(dir)[1])

Imported == vfs_last.op = "import_session"

\* the import of vfs_last is of a session of version "1.0" whose files member
\* is an object
WellFormedImport ==
    /\ Imported
    /\ vfs_last.input.json
    /\ vfs_last.input.version = Some("1.0")
    /\ vfs_last.input.files # None

\* C27: importing a session whose version is "1.0" and whose files member is
\* an object writes every entry of files into the Eager Store as resident
\* content at its path parsed as absolute, and the reported count equals the
\* number of entries of files.
C27_ImportWritesEveryEntry ==
    WellFormedImport
    => LET entries == vfs_last.input.files[1]
       IN /\ vfs_last.res = "Imported"
          /\ vfs_last.out = Len(entries)
          /\ \A i \in DOMAIN entries :
                /\ entries[i].value # None
                /\ vfs_get_content(VIRTUAL_FS, FilePath_parse(entries[i].path, root))
                      = Some(InMemory(entries[i].value[1]))

ImportErrors ==
    { "Error: Failed to parse session file",
      "Error: Invalid session file: missing version",
      "Error: Unsupported session version",
      "Error: Invalid session file: missing or invalid files" }

\* C28: an import whose version is anything other than "1.0", or whose files
\* member is missing or not an object, returns an error report and leaves the
\* Eager Store exactly as it was.
C28_ImportRejects ==
    (Imported /\ ~WellFormedImport)
    => /\ vfs_last.res \in ImportErrors
       /\ vfs_last.out = 0
       /\ VIRTUAL_FS = vfs_last.before

\* C28 witness: a session of version "2.0" with a files object, imported into
\* a store that holds files
C28_Witness ==
    /\ Imported
    /\ vfs_last.input.json
    /\ vfs_last.input.version = Some("2.0")
    /\ vfs_last.input.files = Some(SampleEntries)
    /\ vfs_last.res = "Error: Unsupported session version"
    /\ \E d \in DOMAIN VIRTUAL_FS : VIRTUAL_FS[d] # EmptyMap

Exported == vfs_last.op = "export_session"

ResidentFiles == { x \in stored_files(VIRTUAL_FS) : x.content.tag = "InMemory" }

\* C29: the session export lists exactly the resident files of the Eager
\* Store: one entry per resident file, keyed by its absolute path and holding
\* its content, and no entry for a pending file.
C29_ExportResident ==
    Exported
    => LET files == vfs_last.out.files
       IN /\ vfs_last.out.version = "1.0"
          /\ DOMAIN files
                = { FilePath_to_string(FilePath(x.dir, x.file)) : x \in ResidentFiles }
          /\ Cardinality(DOMAIN files) = Cardinality(ResidentFiles)
          /\ \A x \in ResidentFiles :
                files[FilePath_to_string(FilePath(x.dir, x.file))] = x.content.text
          /\ \A x \in stored_files(VIRTUAL_FS) \ ResidentFiles :
                FilePath_to_string(FilePath(x.dir, x.file)) \notin DOMAIN files

\* C29 witness: an export of a store with a pending file and resident files of
\* two contents, one of them in the root
C29_Witness ==
    /\ Exported
    /\ stored_files(VIRTUAL_FS) # ResidentFiles
    /\ << "/", "f" >> \in DOMAIN vfs_last.out.files
    /\ \E k \in DOMAIN vfs_last.out.files : vfs_last.out.files[k] = "w"
    /\ \E k \in DOMAIN vfs_last.out.files : vfs_last.out.files[k] = "v"

\* the overlay right after the one-shot merge that the step of a task runs
\* first: the trigger on the path the task was called with
MergedOverlay ==
    LET t == CHOOSE u \in TaskIds : tasks'[u] # tasks[u]
    IN path_in_cave_of_dice(World, tasks'[t].dir).w.afs

\* C30: the one-shot merge of the procedural subtree only adds entries to the
\* Caching Overlay: every Contents and Directories cache entry that was
\* present before the merge has the same value after it.
C30_MergeOnlyAdds ==
    [][merges' # merges
        => /\ \A p \in DOMAIN ABYSS_FS.files :
                 /\ p \in DOMAIN MergedOverlay.files
                 /\ MergedOverlay.files[p] = ABYSS_FS.files[p]
           /\ \A p \in DOMAIN ABYSS_FS.dirs :
                 /\ p \in DOMAIN MergedOverlay.dirs
                 /\ MergedOverlay.dirs[p] = ABYSS_FS.dirs[p]]_vars

\* C40: after any sequence of add_input, arrow_up and arrow_down,
\* 0 <= index <= number of stored inputs, no stored input is the empty
\* string, arrow_up returns None exactly when index is 0, and arrow_down
\* returns None exactly when index equals the number of stored inputs.
C40_InputHistory ==
    /\ INPUT_HISTORY.index \in 0..Len(INPUT_HISTORY.inputs)
    /\ \A k \in DOMAIN INPUT_HISTORY.inputs : INPUT_HISTORY.inputs[k] # ""
    /\ history_call.op = "arrow_up"
          => ((history_call.res = None) <=> (history_call.before.index = 0))
    /\ history_call.op = "arrow_down"
          => ((history_call.res = None)
                <=> (history_call.before.index = Len(history_call.before.inputs)))

\* C40 witness: arrow_down on a history of two inputs whose index is at the
\* end returns None
C40_Witness ==
    /\ history_call.op = "arrow_down"
    /\ history_call.res = None
    /\ Len(INPUT_HISTORY.inputs) = 2
    /\ INPUT_HISTORY.index = 2

\* C31 (as stated): every node of size class n of the procedural subtree
\* has between zero and n - 1 children.
C31_FewerChildrenThanSize ==
    build.status = "done" => build.kids \in 0..(build.n - 1)

\* C31 (amended): every node of size class n of the procedural subtree has
\* between zero and n children.
C31_AtMostSizeChildren ==
    build.status = "done" => build.kids \in 0..build.n

\* C31 witness: a node below the top directories whose every iteration
\* pushed a child
C31_Witness ==
    /\ build.status = "done"
    /\ build.depth = 2
    /\ build.kids = build.n

\* C39: for every node the build loop reaches, the depth fits in 8 bits and
\* n * depth fits in 8 bits, so the branching bound is the product itself.
C39_BoundFitsU8 ==
    build.status # "idle" =>
        /\ build.depth < U8
        /\ build.n * build.depth < U8
        /\ branching_bound(build.n, build.depth) = build.n * build.depth

\* the step is task t returning from get_file_content with a generated roll
DiceRead(t) ==
    /\ tasks'[t] # tasks[t]
    /\ Finished(tasks'[t], "get_file_content")
    /\ tasks'[t].res = Ok
    /\ tasks'[t].text = "You rolled a"

\* the roll is within 1..n for the file d{n}.txt and its entry is still pending
DiceRolled(t) ==
    /\ is_dice_file_name(tasks'[t].file) # None
    /\ tasks'[t].roll \in 1..is_dice_file_name(tasks'[t].file)[1]
    /\ Contents_get(ABYSS_FS'.files[tasks'[t].dir], tasks'[t].file) = Some(ToFetch)

\* C32 (as stated): a read of the generated file d{n}.txt of a directory of
\* the procedural subtree returns the fixed message with a k in 1..n, leaves
\* the file's cache entry pending and leaves the overlay unchanged.
C32_DiceReadStoresNothing ==
    [][\A t \in TaskIds : DiceRead(t) => (DiceRolled(t) /\ ABYSS_FS' = ABYSS_FS)]_vars

\* C32 (amended): such a read returns the fixed message with a k in 1..n,
\* leaves the file's cache entry pending, and leaves the overlay as the
\* one-shot merge triggered by the read's own lookup leaves it (unchanged
\* when the merge has already run).
C32_DiceReadStoresNothingAfterTrigger ==
    [][\A t \in TaskIds :
          DiceRead(t) =>
              /\ DiceRolled(t)
              /\ ABYSS_FS' = path_in_cave_of_dice(World, tasks'[t].dir).w.afs]_vars

\* C32 witness: two reads of the same generated file have returned
\* different values, and the file is still pending
C32_Witness ==
    /\ Finished(tasks["t1"], "get_file_content")
    /\ Finished(tasks["t2"], "get_file_content")
    /\ tasks["t1"].text = "You rolled a"
    /\ tasks["t2"].text = "You rolled a"
    /\ tasks["t1"].dir = CAVE_D4
    /\ tasks["t2"].dir = CAVE_D4
    /\ tasks["t1"].file = tasks["t2"].file
    /\ tasks["t1"].roll = 4
    /\ tasks["t2"].roll = 1
    /\ Contents_get(ABYSS_FS.files[CAVE_D4], "d4.txt") = Some(ToFetch)

\* the file names the target directory of a finished call listed when the call
\* was made: the cached listing, or else the server's
ListingAtStart(tk) ==
    IF tk.dir \in DOMAIN TriggeredStart(tk).files
    THEN DOMAIN TriggeredStart(tk).files[tk.dir]
    ELSE DOMAIN Contents_from_file(remote.files[tk.dir])

\* C33: delete-file on the Caching Overlay succeeds exactly when the file was
\* in the target directory's listing and reports file-not-found exactly when
\* it was absent, on the sync path as well as on the retry path.
C33_DeleteReportsAbsence ==
    \A t \in TaskIds :
        Finished(tasks[t], "remove_file_abyss")
        => ((tasks[t].res = Ok) <=> (tasks[t].file \in ListingAtStart(tasks[t])))

\* the directories the sync attempts are tried on in every reachable overlay
SyncDirs == DirInputs \cup {root, ABYSS, ABYSS_X_Y}

\* the attempt r = [afs, res] on the overlay left both caches as they were
\* if it returned NeedsFetch
Untouched(r) == r.res = NeedsFetch => r.afs = ABYSS_FS

\* C34: whenever a sync attempt (sync_write_file, sync_remove_file,
\* sync_create_dir, sync_remove_dir) returns NeedsFetch, both caches of the
\* overlay are exactly as they were before the attempt.
C34_NeedsFetchLeavesCaches ==
    /\ \A dir \in SyncDirs :
          /\ Untouched(sync_remove_dir(ABYSS_FS, dir))
          /\ Untouched(sync_create_dir(ABYSS_FS, dir))
          /\ \A file \in FileInputs :
                /\ Untouched(sync_remove_file(ABYSS_FS, FilePath(dir, file)))
                /\ \A text \in TextInputs :
                      Untouched(sync_write_file(ABYSS_FS, FilePath(dir, file), text))
    /\ \A t \in TaskIds :
          (/\ tasks[t].op \in Mutations
           /\ tasks[t].needed
           /\ tasks[t].pc \notin Quiescent
           /\ tasks[t].nfetch = 1)
          => ABYSS_FS = TriggeredStart(tasks[t])

\* C34 witness: the overlay caches a directory that holds a file, so that
\* sync_remove_dir on it returns NeedsFetch, and a remove_dir_abyss whose sync
\* attempt returned NeedsFetch is at its first fetch
C34_Witness ==
    /\ ABYSS_X \in DOMAIN ABYSS_FS.files
    /\ DOMAIN ABYSS_FS.files[ABYSS_X] # {}
    /\ \E t \in TaskIds :
          /\ tasks[t].op = "remove_dir_abyss"
          /\ tasks[t].dir = ABYSS_X
          /\ tasks[t].needed
          /\ tasks[t].pc \notin Quiescent
          /\ tasks[t].nfetch = 1

\* C35: the commands rm and rmdir given a path under abyss apply the
\* deletion to the Caching Overlay and return a value; they never terminate
\* abruptly.
C35_RmReturns ==
    \A t \in TaskIds :
        (tasks[t].op \in {"Rm", "Rmdir"} /\ path_in_abyss(tasks[t].dir))
        => tasks[t].pc # "panicked"

\* when the finished call tk was made, its directory had been removed by a
\* successful remove_dir_abyss and nothing had brought it back: its parent's
\* cached listing lacked it and it had no cache entry of its own
RemovedAtStart(tk) ==
    /\ DirRemoved(tk.dir)
    /\ tk.dir \notin DOMAIN tk.start.files
    /\ tk.dir \notin DOMAIN tk.start.dirs
    /\ super_dir(tk.dir)[1] \in DOMAIN tk.start.dirs
    /\ final_component(tk.dir)[1] \notin tk.start.dirs[super_dir(tk.dir)[1]]

\* C36: after remove-directory has succeeded for the overlay directory D, a
\* later exists(D) is false and, for every file name f, exists(D/f) is false
\* and read(D/f) reports not-found, files deleted from D before the removal
\* included.
C36_RemovedStaysRemoved ==
    \A t \in TaskIds :
        RemovedAtStart(tasks[t]) =>
            /\ Finished(tasks[t], "dir_exists") => tasks[t].res = "false"
            /\ Finished(tasks[t], "file_exists") => tasks[t].res = "false"
            /\ Finished(tasks[t], "get_file_content") => tasks[t].res = "No such file"

\* the overlay had cached listings of dir, with at least one file or
\* subdirectory in them
CachedNonEmpty(afs, dir) ==
    /\ dir \in DOMAIN afs.files
    /\ dir \in DOMAIN afs.dirs
    /\ (DOMAIN afs.files[dir] # {} \/ afs.dirs[dir] # {})

\* C37: create-directory on the overlay applied to an existing directory
\* that has cached files or subdirectories leaves the directory's cached
\* Contents and Directories unchanged.
C37_CreateKeepsExisting ==
    \A t \in TaskIds :
        (/\ Finished(tasks[t], "create_dir_abyss")
         /\ CachedNonEmpty(TriggeredStart(tasks[t]), tasks[t].dir))
        => /\ tasks[t].dir \in DOMAIN ABYSS_FS.files
           /\ tasks[t].dir \in DOMAIN ABYSS_FS.dirs
           /\ ABYSS_FS.files[tasks[t].dir] = TriggeredStart(tasks[t]).files[tasks[t].dir]
           /\ ABYSS_FS.dirs[tasks[t].dir] = TriggeredStart(tasks[t]).dirs[tasks[t].dir]

\* C38: in every reachable state of the Eager Store, every existing
\* directory whose list of files and list of subdirectories are both empty
\* can be removed: remove_dir on it succeeds.
C38_EmptyIsRemovable ==
    \A dir \in EagerDirs :
        (/\ vfs_dir_exists(VIRTUAL_FS, dir)
         /\ vfs_list_files_in_dir(VIRTUAL_FS, dir) = {}
         /\ vfs_list_subdirs_in_dir(VIRTUAL_FS, dir) = {})
        => vfs_remove_dir(VIRTUAL_FS, dir).res = Ok

====
